---- MODULE Spec2Model ----
(***************************************************************************)
(* FAQ Emergence App: the adaptive retry/learning loop.                    *)
(*                                                                         *)
(*   AdaptiveLearner   lib/adaptive.js   (src/unnamed/part_000:153-399)    *)
(*   QualityEvaluator  lib/quality.js    (src/unnamed/part_001:1-202)      *)
(*   GeminiService     lib/gemini.js     (src/unnamed/part_001:204-393)    *)
(*   DatabaseService   src/lib/database.js                                 *)
(*   adaptive_params   src/db/schema.sql:1-91                              *)
(*   request handler   api function      (src/db/schema.sql:93-247)        *)
(*   eqs_cache store   src/index.js:20-76                                  *)
(*                                                                         *)
(* Numbers: metrics and stored scores are in thousandths (0.35 -> 350),    *)
(* weights in hundredths, the weighted total in units of 10^-5.            *)
(* Optional values (null / undefined in the source) are sequences of       *)
(* length 0 or 1.                                                          *)
(***************************************************************************)
EXTENDS Integers, Sequences, FiniteSets, TLC

(***************************************************************************)
(* Bounds of the model                                                     *)
(***************************************************************************)
\* number of store calls in one behaviour of SpecStore
MaxUpserts == 3
\* number of clients with overlapping learn calls in SpecConc
NumClients == 2
MaxBetween == 1
MaxRequests == 2
MaxOverlapping == 2

(***************************************************************************)
(* Generation parameters                                                   *)
(***************************************************************************)
Params(t, m, p) == [temperature |-> t, maxTokens |-> m, topP |-> p]

\* GeminiService.defaultParams
defaultParams == Params(70, 1024, 90)

\* AdaptiveLearner.maxAttempts
maxAttempts == 3

\* AdaptiveLearner._defineStrategies
adaptiveStrategies ==
  [incomplete_response |->
      << [name |-> "increase_tokens",   params |-> Params(70, 1500, 90)],
         [name |-> "structured_prompt", params |-> Params(50, 1200, 85)] >>,
   length_issue |->
      << [name |-> "adjust_length",     params |-> Params(60, 1200, 88)],
         [name |-> "balanced_output",   params |-> Params(70, 1000, 90)] >>,
   structure_issue |->
      << [name |-> "lower_temp",        params |-> Params(40, 1024, 80)],
         [name |-> "focused_gen",       params |-> Params(50, 1100, 85)] >>,
   relevance_issue |->
      << [name |-> "precise_mode",      params |-> Params(30, 1024, 75)],
         [name |-> "conservative",      params |-> Params(40, 900, 80)] >>,
   quality_low |->
      << [name |-> "creative_boost",    params |-> Params(80, 1200, 92)],
         [name |-> "balanced",          params |-> Params(60, 1100, 87)] >>]

\* the names every object literal inherits from Object.prototype: reading one
\* of them off adaptiveStrategies gives a function (an object for __proto__)
ObjectPrototypeKeys ==
  {"constructor", "hasOwnProperty", "isPrototypeOf", "propertyIsEnumerable",
   "toLocaleString", "toString", "valueOf", "__proto__"}

\* a JavaScript value the strategy lookup can return: one of the lists of the
\* catalog, or a member of Object.prototype (which cannot be iterated)
StrategyList(list) == [type |-> "Array", items |-> list]
InheritedMember == [type |-> "Object.prototype", items |-> << >>]

\* the property read this.adaptiveStrategies[scenarioCode]; << >> is undefined
StrategyLookup(scenarioCode) ==
  IF scenarioCode \in DOMAIN adaptiveStrategies
    THEN << StrategyList(adaptiveStrategies[scenarioCode]) >>
    ELSE IF scenarioCode \in ObjectPrototypeKeys THEN << InheritedMember >>
    ELSE << >>

GetStrategiesReversed(scenarioCode) ==
  LET list == IF scenarioCode \in DOMAIN adaptiveStrategies
                THEN adaptiveStrategies[scenarioCode]
                ELSE adaptiveStrategies.quality_low
  IN StrategyList([i \in 1 .. Len(list) |-> list[Len(list) + 1 - i]])

\* AdaptiveLearner._getStrategiesForScenario:
\*   this.adaptiveStrategies[scenarioCode] || this.adaptiveStrategies['quality_low']
GetStrategiesForScenario(scenarioCode) ==
  IF StrategyLookup(scenarioCode) # << >>
    THEN StrategyLookup(scenarioCode)[1]
    ELSE StrategyList(adaptiveStrategies.quality_low)

(***************************************************************************)
(* QualityEvaluator.  A candidate (faqData) is given by what the           *)
(* evaluator reads of it: which required fields are non-empty, the word    *)
(* count of the answer (answer.split(/\s+/).length, 1 for an empty         *)
(* answer), its paragraph and sentence counts, the word count of the       *)
(* title, and how many prompt keywords occur in answer or title.           *)
(***************************************************************************)
Min(a, b) == IF a < b THEN a ELSE b

Feat(t, a, c, k, w, p, s, tw, m) ==
  [title |-> t, answer |-> a, category |-> c, keywords |-> k,
   wordCount |-> w, paragraphs |-> p, sentences |-> s, titleWords |-> tw,
   matchCount |-> m]

\* the artifacts the generation service returns in the model
Candidates ==
  [good       |-> Feat(TRUE,  TRUE,  TRUE,  TRUE,  120, 3, 6, 4, 2),
   okay       |-> Feat(TRUE,  TRUE,  TRUE,  TRUE,  20,  1, 2, 2, 0),
   noStruct   |-> Feat(TRUE,  TRUE,  FALSE, FALSE, 20,  1, 1, 1, 0),
   noAnswer   |-> Feat(TRUE,  FALSE, TRUE,  FALSE, 1,   0, 0, 4, 0),
   noAnswerKw |-> Feat(TRUE,  FALSE, FALSE, TRUE,  1,   0, 0, 4, 0),
   empty      |-> Feat(FALSE, FALSE, FALSE, FALSE, 1,   0, 0, 1, 0)]

CandidateNames == DOMAIN Candidates

\* req.body.prompt as the program reads it: its typeof, its length, and the
\* number of its non-trivial keywords ("What is a black hole?" has two:
\* "black", "hole?")
Prompt(type, length, promptWords) ==
  [type |-> type, length |-> length, promptWords |-> promptWords]

\* no prompt in the request body
NoPrompt == Prompt("undefined", 0, 0)

\* the prompts that reach generateWithLearning in the model
Prompts == { Prompt("string", 5, 0), Prompt("string", 5000, 2) }

\* the prompts the request handler turns down
BadPrompts ==
  { NoPrompt, Prompt("number", 0, 0), Prompt("string", 0, 0),
    Prompt("string", 4, 0), Prompt("string", 5001, 2) }

weightsAboveOne == [completeness |-> 35, length |-> 25, structure |-> 20, relevance |-> 30]

\* QualityEvaluator.weights (hundredths)
weights == [completeness |-> 35, length |-> 25, structure |-> 20, relevance |-> 20]

\* QualityEvaluator.thresholds (units of 10^-5, as the weighted total)
thresholds == [excellent |-> 85000, good |-> 70000, acceptable |-> 50000, poor |-> 30000]

\* QualityEvaluator._evaluateCompleteness
EvaluateCompleteness(f) ==
    (IF f.title THEN 250 ELSE 0) + (IF f.answer THEN 250 ELSE 0)
  + (IF f.category THEN 250 ELSE 0) + (IF f.keywords THEN 250 ELSE 0)

EvaluateLengthExclusive(f) ==
  IF f.wordCount > 50 /\ f.wordCount < 300 THEN 1000
  ELSE IF f.wordCount > 30 /\ f.wordCount < 500 THEN 700
  ELSE IF f.wordCount < 10 THEN 100
  ELSE 500

\* QualityEvaluator._evaluateLength
EvaluateLength(f) ==
  IF f.wordCount >= 50 /\ f.wordCount <= 300 THEN 1000
  ELSE IF f.wordCount >= 30 /\ f.wordCount <= 500 THEN 700
  ELSE IF f.wordCount < 10 THEN 100
  ELSE 500

\* QualityEvaluator._evaluateStructure
EvaluateStructure(f) ==
  Min(  (IF f.paragraphs >= 2 THEN 400 ELSE IF f.paragraphs = 1 THEN 200 ELSE 0)
      + (IF f.sentences >= 3 THEN 300 ELSE 0)
      + (IF f.titleWords >= 3 /\ f.titleWords <= 15 THEN 300 ELSE 0),
      1000)

\* QualityEvaluator._evaluateRelevance
EvaluateRelevance(f, prompt) ==
  IF prompt.promptWords > 0
    THEN Min(500 + (Min(f.matchCount, prompt.promptWords) * 500) \div prompt.promptWords, 1000)
    ELSE 500

\* QualityEvaluator._getQualityLevel
GetQualityLevel(total) ==
  IF total >= thresholds.excellent THEN "excellent"
  ELSE IF total >= thresholds.good THEN "good"
  ELSE IF total >= thresholds.acceptable THEN "acceptable"
  ELSE IF total >= thresholds.poor THEN "poor"
  ELSE "failed"

\* the four metrics of a candidate, as evaluateQuality collects them
MetricScores(f, prompt) ==
  [completeness |-> EvaluateCompleteness(f),
   length       |-> EvaluateLength(f),
   structure    |-> EvaluateStructure(f),
   relevance    |-> EvaluateRelevance(f, prompt)]

\* the reduce of evaluateQuality: the weighted total (units of 10^-5)
WeightedTotal(scores) ==
    scores.completeness * weights.completeness
  + scores.length * weights.length
  + scores.structure * weights.structure
  + scores.relevance * weights.relevance

\* QualityEvaluator.evaluateQuality; parseFloat(totalScore.toFixed(3)) is the
\* total rounded to thousandths, a half-way total rounded up
EvaluateQuality(f, prompt) ==
  LET scores == MetricScores(f, prompt)
      totalScore == WeightedTotal(scores)
  IN [score     |-> (totalScore + 50) \div 100,
      level     |-> GetQualityLevel(totalScore),
      breakdown |-> << scores >>,
      passed    |-> totalScore >= thresholds.acceptable]

\* parseFloat(totalScore.toFixed(3)): toFixed rounds the binary double, so a
\* total that is half-way between two thousandths as a decimal (0.2125) goes
\* up or down with its binary representation; both outcomes are kept
ToFixed3(totalScore) ==
  IF totalScore % 100 = 50
    THEN { totalScore \div 100, totalScore \div 100 + 1 }
    ELSE { (totalScore + 50) \div 100 }

\* what evaluateQuality can return for a candidate and a prompt, with both
\* outcomes of toFixed(3) on a half-way total
EvaluateQualityResults(f, prompt) ==
  { [EvaluateQuality(f, prompt) EXCEPT !.score = sc] :
      sc \in ToFixed3(WeightedTotal(MetricScores(f, prompt))) }

\* parseFloat(totalScore.toFixed(3)) for an input whose double rounds up
\* (halfUp) or down when its total is half-way between two thousandths
ToFixed3As(totalScore, halfUp) ==
  IF totalScore % 100 = 50 /\ ~ halfUp
    THEN totalScore \div 100
    ELSE (totalScore + 50) \div 100

EvaluateQualityDrifting(f, prompt, halfUp, evaluations, rows) ==
  LET scores == MetricScores(f, prompt)
      totalScore == WeightedTotal(scores) - 100 * evaluations
  IN [score     |-> ToFixed3As(totalScore, halfUp),
      level     |-> GetQualityLevel(totalScore),
      breakdown |-> << scores >>,
      passed    |-> totalScore >= thresholds.acceptable]

\* evaluateQuality(faqData, prompt) called on an evaluator that has already
\* served a number of evaluations, with the rows of adaptive_params as they
\* are: it reads its two arguments, this.weights and this.thresholds, and
\* writes nothing
EvaluateQualityAfter(f, prompt, halfUp, evaluations, rows) ==
  LET scores == MetricScores(f, prompt)
      totalScore == WeightedTotal(scores)
  IN [score     |-> ToFixed3As(totalScore, halfUp),
      level     |-> GetQualityLevel(totalScore),
      breakdown |-> << scores >>,
      passed    |-> totalScore >= thresholds.acceptable]

GetScenarioCodeLengthFirst(qualityResult) ==
  IF qualityResult.passed THEN "success"
  ELSE IF qualityResult.breakdown = << >> THEN "TypeError"
  ELSE LET breakdown == qualityResult.breakdown[1] IN
       IF breakdown.length < 500 THEN "length_issue"
       ELSE IF breakdown.completeness < 500 THEN "incomplete_response"
       ELSE IF breakdown.structure < 500 THEN "structure_issue"
       ELSE IF breakdown.relevance < 500 THEN "relevance_issue"
       ELSE "quality_low"

\* QualityEvaluator.getScenarioCode; "TypeError" stands for the exception the
\* read of breakdown.completeness raises when breakdown is undefined
GetScenarioCode(qualityResult) ==
  IF qualityResult.passed THEN "success"
  ELSE IF qualityResult.breakdown = << >> THEN "TypeError"
  ELSE LET breakdown == qualityResult.breakdown[1] IN
       IF breakdown.completeness < 500 THEN "incomplete_response"
       ELSE IF breakdown.length < 500 THEN "length_issue"
       ELSE IF breakdown.structure < 500 THEN "structure_issue"
       ELSE IF breakdown.relevance < 500 THEN "relevance_issue"
       ELSE "quality_low"

(***************************************************************************)
(* The adaptive_params table and its two SQL functions.  NOW() is a        *)
(* logical clock that advances with every statement that writes.           *)
(***************************************************************************)
Row(code, params, score, count, t) ==
  [scenario_code |-> code, params |-> params, quality_score |-> score,
   success_count |-> count, updated_at |-> t]

\* the seed rows of schema.sql
SeedRows ==
  { Row("default",   Params(70, 1024, 90), 750, 0, 0),
    Row("technical", Params(30, 1500, 80), 700, 0, 0),
    Row("creative",  Params(90, 1024, 95), 700, 0, 0) }

KeepLatestScore(stored, p_quality_score) == p_quality_score

KeepLowerScore(stored, p_quality_score) ==
  IF p_quality_score < stored THEN p_quality_score ELSE stored

\* the value the ON CONFLICT branch of update_adaptive_param stores as quality_score
KeepBetterScore(stored, p_quality_score) ==
  IF p_quality_score > stored THEN p_quality_score ELSE stored

UpdateAdaptiveParamReplace(rows, p_scenario_code, p_params, p_quality_score, t) ==
  { r \in rows : ~ (r.scenario_code = p_scenario_code /\ r.params = p_params) }
    \cup { [scenario_code |-> p_scenario_code, params |-> p_params,
            quality_score |-> p_quality_score, success_count |-> 1, updated_at |-> t] }

\* update_adaptive_param(p_scenario_code, p_params, p_quality_score) at time t
UpdateAdaptiveParam(rows, p_scenario_code, p_params, p_quality_score, t) ==
  IF \E r \in rows : r.scenario_code = p_scenario_code /\ r.params = p_params
    THEN { IF r.scenario_code = p_scenario_code /\ r.params = p_params
             THEN [r EXCEPT !.success_count = @ + 1,
                            !.quality_score = KeepBetterScore(@, p_quality_score),
                            !.updated_at = t]
             ELSE r : r \in rows }
    ELSE rows \cup { Row(p_scenario_code, p_params, p_quality_score, 1, t) }

OrderedByRecency(r, q) == r.updated_at > q.updated_at

\* ORDER BY quality_score DESC, success_count DESC, updated_at DESC
OrderedBefore(r, q) ==
  \/ r.quality_score > q.quality_score
  \/ /\ r.quality_score = q.quality_score
     /\ r.success_count > q.success_count
  \/ /\ r.quality_score = q.quality_score
     /\ r.success_count = q.success_count
     /\ r.updated_at > q.updated_at

GetBestParamsRecencyBeforeCount(rows, p_scenario_code) ==
  LET ofCode == { r \in rows : r.scenario_code = p_scenario_code }
      before(r, q) ==
        \/ r.quality_score > q.quality_score
        \/ /\ r.quality_score = q.quality_score
           /\ r.updated_at > q.updated_at
  IN { r \in ofCode : \A q \in ofCode : ~ before(q, r) }

\* get_best_params(p_scenario_code): the rows LIMIT 1 can return
GetBestParams(rows, p_scenario_code) ==
  LET ofCode == { r \in rows : r.scenario_code = p_scenario_code }
  IN { r \in ofCode : \A q \in ofCode : ~ OrderedBefore(q, r) }

(***************************************************************************)
(* The eqs_cache store of index.js: one row per pqs_code.                  *)
(***************************************************************************)
\* SSSInterface.learnAndStoreParam: INSERT ... ON CONFLICT (pqs_code) DO UPDATE
LearnAndStoreParam(cache, pqsCode, successfulParam, eqsScore) ==
  IF cache[pqsCode] = << >>
    THEN [cache EXCEPT ![pqsCode] =
            << [adaptive_param_json |-> successfulParam, eqs_score |-> eqsScore] >>]
    ELSE [cache EXCEPT ![pqsCode] =
            << [adaptive_param_json |->
                  IF eqsScore > cache[pqsCode][1].eqs_score
                    THEN successfulParam ELSE cache[pqsCode][1].adaptive_param_json,
                eqs_score |->
                  IF eqsScore > cache[pqsCode][1].eqs_score
                    THEN eqsScore ELSE cache[pqsCode][1].eqs_score] >>]

\* SSSInterface.getBestAdaptiveParam
GetBestAdaptiveParam(cache, pqsCode) ==
  IF cache[pqsCode] = << >> THEN << >> ELSE << cache[pqsCode][1].adaptive_param_json >>

(***************************************************************************)
(* AdaptiveLearner: the pure parts                                         *)
(***************************************************************************)
\* what gemini.generateFAQ can return: a failure, or one of the candidates
GenerationOutcomes == {"error"} \cup CandidateNames

\* AdaptiveLearner._attemptGeneration, after gemini.generateFAQ returned
AttemptGeneration(outcome, prompt, params, strategyName) ==
  IF outcome = "error"
    THEN [success  |-> FALSE,
          quality  |-> [score |-> 0, passed |-> FALSE, level |-> "failed",
                        breakdown |-> << >>],
          data     |-> << >>,
          log      |-> [strategy |-> strategyName, params |-> params,
                        error |-> TRUE, qualityScore |-> << >>]]
    ELSE LET qualityResult == EvaluateQuality(Candidates[outcome], prompt) IN
         [success  |-> TRUE,
          quality  |-> qualityResult,
          data     |-> << outcome >>,
          log      |-> [strategy |-> strategyName, params |-> params,
                        error |-> FALSE, qualityScore |-> << qualityResult.score >>]]

QualityPassedIfGenerated(result) == result.success

\* the test "result.quality.passed" that ends the request with _recordSuccess
QualityPassed(result) == result.quality.passed

ImprovesBestOnTie(result, best) == result.quality.score >= best

\* the test "result.quality.score > bestQuality" that replaces the best result
ImprovesBest(result, best) == result.quality.score > best

LoopContinuesOffByOne(idx, attempt, strategies, limit) ==
  idx <= Len(strategies) /\ ~ (attempt > limit)

\* the loop head of the adaptive phase: another strategy is tried unless
\* currentAttempt >= this.maxAttempts
LoopContinues(idx, attempt, strategies, limit) ==
  idx <= Len(strategies) /\ ~ (attempt >= limit)

\* the attempt count the learned phase reports on success
LearnedAttempts == 1

FormatResponseAttemptIndex(result, log, totalAttempts) ==
  [success  |-> result.success /\ result.quality.passed,
   faq      |-> result.data,
   quality  |-> [score |-> result.quality.score, level |-> result.quality.level,
                 breakdown |-> result.quality.breakdown],
   metadata |-> [attempts |-> totalAttempts - 1, attemptLog |-> log]]

FormatResponseSuccessIfGenerated(result, log, totalAttempts) ==
  [success  |-> result.success,
   faq      |-> result.data,
   quality  |-> [score |-> result.quality.score, level |-> result.quality.level,
                 breakdown |-> result.quality.breakdown],
   metadata |-> [attempts |-> totalAttempts, attemptLog |-> log]]

\* AdaptiveLearner._formatResponse, for a result that is not null
FormatResponse(result, log, totalAttempts) ==
  [success  |-> result.success /\ result.quality.passed,
   faq      |-> result.data,
   quality  |-> [score |-> result.quality.score, level |-> result.quality.level,
                 breakdown |-> result.quality.breakdown],
   metadata |-> [attempts |-> totalAttempts, attemptLog |-> log]]

(***************************************************************************)
(* State                                                                   *)
(***************************************************************************)
VARIABLES
  adaptive_params,   \* rows of table adaptive_params
  now,               \* NOW() of the last writing statement
  faq_generations,   \* rows of table faq_generations, in insertion order
  learning_metrics,  \* today's row of learning_metrics, if any
  eqs_cache,         \* rows of table eqs_cache, by pqs_code
  hist,              \* the learn statements the database applied, in order
  pc,                \* where the request is
  prompt,            \* the prompt of the request
  learnedParams,     \* generateWithLearning: learnedParams
  attemptLog,        \* generateWithLearning: attemptLog
  currentAttempt,    \* generateWithLearning: currentAttempt
  bestResult,        \* generateWithLearning: bestResult
  bestQuality,       \* generateWithLearning: bestQuality
  cur,               \* the result of the attempt that passed
  attempts,          \* the attempt count handed to _recordSuccess
  scenarioCode,      \* generateWithLearning: scenarioCode
  stratIdx,          \* position of the loop in strategies
  genCalls,          \* gemini.generateFAQ invocations of the request
  generated,         \* what gemini.generateFAQ returned, call by call
  response,          \* what generateWithLearning returned
  thrown,            \* the error generateWithLearning threw
  http,              \* what the request handler answered
  method,            \* req.method of the request
  dbCalls,           \* the DatabaseService methods the request called, in order
  thisMaxAttempts,   \* this.maxAttempts of the AdaptiveLearner
  earlier,           \* how the earlier requests of the session ended
  metricsApplied,    \* the updateMetrics statements the database applied today
  sss_cache,         \* sequence variant: the row of table sss_cache, by pqs_code
  sssCalls,          \* sequence variant: each client's learnAndStoreSequence call
  engine,            \* sequence variant: the locals of the AdaptiveEngine request
  cpc,               \* SpecConc: where each client's learn call is
  carg,              \* SpecConc: the arguments of each client's learn call
  evalIn,            \* SpecEval: the arguments of the function under evaluation
  evalOut            \* SpecEval: what the function returned

seqVars == << sss_cache, sssCalls, engine >>
storeVars == << adaptive_params, now, faq_generations, learning_metrics, eqs_cache, hist >>
reqLocals == << pc, prompt, learnedParams, attemptLog, currentAttempt, bestResult,
                bestQuality, cur, attempts, scenarioCode, stratIdx, genCalls,
                generated, response, thrown, http, method, dbCalls, thisMaxAttempts,
                earlier, metricsApplied >>
reqVars == << reqLocals, seqVars >>
sessionVars == << earlier, metricsApplied >>
concVars == << cpc, carg >>
evalVars == << evalIn, evalOut >>
vars == << storeVars, reqVars, concVars, evalVars >>

Clients == 1 .. NumClients

\* the scenario codes and configurations of the store-level specifications
StoreCodes == {"success", "length_issue"}
StoreParams == { defaultParams, Params(60, 1200, 88) }
StoreScores == {400, 600, 800}
PqsCodes == {"E302_LowEQS", "E500_ApiError"}

\* stores earlier requests can have left behind: the seed rows alone, a
\* default attempt that passed, an adaptive attempt that passed, and both
InitialStores ==
  { [rows |-> SeedRows, now |-> 0],
    [rows |-> UpdateAdaptiveParam(SeedRows, "success", defaultParams, 1000, 1), now |-> 1],
    [rows |-> UpdateAdaptiveParam(
                UpdateAdaptiveParam(SeedRows, "success", Params(60, 1200, 88), 615, 1),
                "length_issue", Params(60, 1200, 88), 615, 2),
     now |-> 2],
    [rows |-> UpdateAdaptiveParam(
                UpdateAdaptiveParam(
                  UpdateAdaptiveParam(SeedRows, "success", Params(60, 1200, 88), 615, 1),
                  "length_issue", Params(60, 1200, 88), 615, 2),
                "success", defaultParams, 1000, 3),
     now |-> 3] }

\* the sequence variant is not running
InitSeqIdle ==
  /\ sss_cache = << >>
  /\ sssCalls = << >>
  /\ engine = << >>

InitRequest ==
  /\ pc = "idle"
  /\ prompt = NoPrompt
  /\ learnedParams = << >>
  /\ attemptLog = << >>
  /\ currentAttempt = 0
  /\ bestResult = << >>
  /\ bestQuality = 0
  /\ cur = << >>
  /\ attempts = 0
  /\ scenarioCode = ""
  /\ stratIdx = 0
  /\ genCalls = 0
  /\ generated = << >>
  /\ response = << >>
  /\ thrown = << >>
  /\ http = << >>
  /\ method = ""
  /\ dbCalls = << >>

InitRest ==
  /\ faq_generations = << >>
  /\ learning_metrics = << >>
  /\ eqs_cache = [c \in PqsCodes |-> << >>]
  /\ hist = << >>
  /\ cpc = [c \in Clients |-> "idle"]
  /\ carg = [c \in Clients |-> << >>]
  /\ earlier = << >>
  /\ metricsApplied = 0

\* the constructor: this.maxAttempts = 3
InitConfigured == thisMaxAttempts = maxAttempts

\* no function is under evaluation
InitEvalIdle ==
  /\ evalIn = << >>
  /\ evalOut = << >>

Init ==
  /\ \E s \in InitialStores : adaptive_params = s.rows /\ now = s.now
  /\ InitRequest
  /\ InitRest
  /\ InitSeqIdle
  /\ InitEvalIdle
  /\ InitConfigured

\* the freshly initialised database: the seed rows only
InitStore ==
  /\ adaptive_params = SeedRows
  /\ now = 0
  /\ InitRequest
  /\ InitRest
  /\ InitSeqIdle
  /\ InitEvalIdle
  /\ InitConfigured

(***************************************************************************)
(* generateWithLearning, one action per await                              *)
(***************************************************************************)
unchangedLocals == UNCHANGED << prompt, learnedParams, scenarioCode >>

\* a call of a DatabaseService method by the request, and whether its query
\* went through
DbCall(op, code, params, score, ok) ==
  [op |-> op, code |-> code, params |-> params, score |-> score, ok |-> ok]

\* the body the request handler sends with an error status
Reply(status) ==
  [status |-> status, success |-> FALSE, faq |-> << >>, quality |-> << >>,
   metadata |-> << >>]

Methods == {"POST", "GET", "OPTIONS"}

ValidatePromptExclusive(p) ==
  IF p.type # "string" \/ p.length = 0 THEN "invalid"
  ELSE IF p.length < 5 THEN "too_short"
  ELSE IF p.length >= 5000 THEN "too_long"
  ELSE "ok"

\* the input validation of the request handler: !prompt || typeof prompt !==
\* 'string', then prompt.length < 5, then prompt.length > 5000
ValidatePrompt(p) ==
  IF p.type # "string" \/ p.length = 0 THEN "invalid"
  ELSE IF p.length < 5 THEN "too_short"
  ELSE IF p.length > 5000 THEN "too_long"
  ELSE "ok"

RequestOutcomeUnvalidated(m, p, databaseUrl) ==
  IF m = "OPTIONS" THEN "preflight"
  ELSE IF m # "POST" THEN "method_not_allowed"
  ELSE IF ~ databaseUrl THEN "config_error"
  ELSE "proceed"

\* how far the request handler gets before its first await: the OPTIONS and
\* method checks, the input validation, then initializeServices(), which
\* throws when DATABASE_URL is not set
RequestOutcome(m, p, databaseUrl) ==
  IF m = "OPTIONS" THEN "preflight"
  ELSE IF m # "POST" THEN "method_not_allowed"
  ELSE IF ValidatePrompt(p) # "ok" THEN "bad_request"
  ELSE IF ~ databaseUrl THEN "config_error"
  ELSE "proceed"

\* the request handler up to its first await
StartRequest ==
  /\ pc = "idle"
  /\ \E m \in Methods, p \in Prompts \cup BadPrompts, databaseUrl \in BOOLEAN :
       LET outcome == RequestOutcome(m, p, databaseUrl) IN
       /\ method' = m
       /\ prompt' = p
       /\ CASE outcome = "preflight" ->
                 pc' = "responded" /\ http' = << Reply(200) >> /\ UNCHANGED thrown
            [] outcome = "method_not_allowed" ->
                 pc' = "responded" /\ http' = << Reply(405) >> /\ UNCHANGED thrown
            [] outcome = "bad_request" ->
                 pc' = "responded" /\ http' = << Reply(400) >> /\ UNCHANGED thrown
            [] outcome = "config_error" ->
                 pc' = "thrown" /\ thrown' = << "DATABASE_URL" >> /\ UNCHANGED http
            [] outcome = "proceed" ->
                 pc' = "health" /\ UNCHANGED << http, thrown >>
  /\ UNCHANGED << storeVars, concVars, evalVars, seqVars, thisMaxAttempts, sessionVars, learnedParams, attemptLog, currentAttempt,
                  bestResult, bestQuality, cur, attempts, scenarioCode, stratIdx,
                  genCalls, generated, response, dbCalls >>

AfterHealthCheckIgnored(healthy) == "getBest"

\* "if (!health.healthy) return res.status(503)": where the handler is after
\* the health check
AfterHealthCheck(healthy) == IF healthy THEN "getBest" ELSE "responded"

\* DatabaseService.healthCheck (SELECT NOW()); the handler answers 503 when
\* it reports unhealthy, and calls generateWithLearning(prompt) otherwise
HealthCheck ==
  /\ pc = "health"
  /\ \E healthy \in BOOLEAN :
       /\ dbCalls' = Append(dbCalls, DbCall("healthCheck", "", << >>, << >>, healthy))
       /\ pc' = AfterHealthCheck(healthy)
       /\ IF pc' = "getBest"
            THEN UNCHANGED http
            ELSE http' = << Reply(503) >>
  /\ UNCHANGED << storeVars, concVars, evalVars, seqVars, thisMaxAttempts, sessionVars, prompt, learnedParams, attemptLog,
                  currentAttempt, bestResult, bestQuality, cur, attempts, scenarioCode,
                  stratIdx, genCalls, generated, response, thrown, method >>

LearnedReadFailureCode == "length_issue"

\* the scenario code generateWithLearning reads its learned parameters under
LearnedReadCode == "success"

GetBestParametersStale(rows, queryFails) ==
  IF GetBestParams(rows, LearnedReadCode) = {}
    THEN { << >> }
    ELSE { << r.params >> : r \in GetBestParams(rows, LearnedReadCode) }

\* what DatabaseService.getBestParameters('success') can return: the params
\* of the best row, or null when there is no row or the query fails
GetBestParametersResult(rows, queryFails) ==
  IF queryFails \/ GetBestParams(rows, LearnedReadCode) = {}
    THEN { << >> }
    ELSE { << r.params >> : r \in GetBestParams(rows, LearnedReadCode) }

\* generateWithLearning: learnedParams = await db.getBestParameters('success')
GetBestParameters ==
  /\ pc = "getBest"
  /\ \E queryFails \in BOOLEAN :
       /\ learnedParams' \in GetBestParametersResult(adaptive_params, queryFails)
       /\ dbCalls' = Append(dbCalls, DbCall("getBestParameters", LearnedReadCode, << >>,
                                            << >>, ~ queryFails))
  /\ pc' = IF learnedParams' # << >> THEN "learned_call" ELSE "default_call"
  /\ UNCHANGED << storeVars, concVars, evalVars, seqVars, thisMaxAttempts, sessionVars, prompt, attemptLog, currentAttempt, bestResult,
                  bestQuality, cur, attempts, scenarioCode, stratIdx, genCalls,
                  generated, response, thrown, http, method >>

AwaitGenerationSkipped(phase) == phase

\* await this._attemptGeneration(...): the phase that issued the call is
\* suspended until gemini.generateFAQ has returned and the result is scored
AwaitGeneration(phase) ==
  CASE phase = "learned_call"  -> "learned_wait"
    [] phase = "default_call"  -> "default_wait"
    [] phase = "adaptive_call" -> "adaptive_wait"

\* _attemptGeneration calls gemini.generateFAQ
GenerateCall ==
  /\ pc \in {"learned_call", "default_call", "adaptive_call"}
  /\ genCalls' = genCalls + 1
  /\ pc' = AwaitGeneration(pc)
  /\ UNCHANGED << storeVars, concVars, evalVars, seqVars, thisMaxAttempts, sessionVars, prompt, learnedParams, attemptLog,
                  currentAttempt, bestResult, bestQuality, cur, attempts,
                  scenarioCode, stratIdx, generated, response, thrown, http, method, dbCalls >>

\* Phase 1: the attempt with the learned parameters returns
LearnedReturn ==
  /\ pc = "learned_wait"
  /\ \E outcome \in GenerationOutcomes :
       LET result == AttemptGeneration(outcome, prompt, learnedParams[1], "learned") IN
       /\ generated' = Append(generated, outcome)
       /\ attemptLog' = Append(attemptLog, result.log)
       /\ IF QualityPassed(result)
            THEN /\ cur' = << result >>
                 /\ attempts' = LearnedAttempts
                 /\ pc' = "rs_log"
                 /\ UNCHANGED << bestResult, bestQuality, currentAttempt >>
            ELSE /\ IF ImprovesBest(result, bestQuality)
                      THEN bestResult' = << result >> /\ bestQuality' = result.quality.score
                      ELSE UNCHANGED << bestResult, bestQuality >>
                 /\ currentAttempt' = currentAttempt + 1
                 /\ pc' = "default_call"
                 /\ UNCHANGED << cur, attempts >>
  /\ UNCHANGED << storeVars, concVars, evalVars, seqVars, thisMaxAttempts, sessionVars, stratIdx, genCalls, response, thrown, http, method, dbCalls >>
  /\ unchangedLocals

ClassifiedBestSoFar(defaultResult, best) ==
  IF best = << >> THEN defaultResult ELSE best[1]

\* the result whose quality getScenarioCode classifies after Phase 2:
\* defaultResult, not bestResult
ClassifiedResult(defaultResult, best) == defaultResult

\* Phase 2: the attempt with the default parameters returns; on a failure
\* the scenario is classified and the adaptive loop is entered
DefaultReturn ==
  /\ pc = "default_wait"
  /\ \E outcome \in GenerationOutcomes :
       LET result == AttemptGeneration(outcome, prompt, defaultParams, "default")
           best   == IF ImprovesBest(result, bestQuality) THEN << result >> ELSE bestResult
           code   == GetScenarioCode(ClassifiedResult(result, best).quality)
       IN
       /\ generated' = Append(generated, outcome)
       /\ attemptLog' = Append(attemptLog, result.log)
       /\ currentAttempt' = currentAttempt + 1
       /\ IF QualityPassed(result)
            THEN /\ cur' = << result >>
                 /\ attempts' = currentAttempt'
                 /\ pc' = "rs_log"
                 /\ UNCHANGED << bestResult, bestQuality, scenarioCode, stratIdx, thrown >>
            ELSE /\ IF ImprovesBest(result, bestQuality)
                      THEN bestResult' = << result >> /\ bestQuality' = result.quality.score
                      ELSE UNCHANGED << bestResult, bestQuality >>
                 /\ IF code = "TypeError"
                      THEN /\ thrown' = << "TypeError" >>
                           /\ pc' = "thrown"
                           /\ UNCHANGED << scenarioCode, stratIdx >>
                      ELSE /\ scenarioCode' = code
                           /\ stratIdx' = 1
                           /\ pc' = IF LoopContinues(1, currentAttempt',
                                                     GetStrategiesForScenario(code).items,
                                                     thisMaxAttempts)
                                      THEN "adaptive_call" ELSE "rf_log"
                           /\ UNCHANGED thrown
                 /\ UNCHANGED << cur, attempts >>
  /\ UNCHANGED << storeVars, concVars, evalVars, seqVars, thisMaxAttempts, sessionVars, prompt, learnedParams, genCalls, response, http, method, dbCalls >>

\* Phase 3: the attempt with the strategy at stratIdx returns
AdaptiveReturn ==
  /\ pc = "adaptive_wait"
  /\ \E outcome \in GenerationOutcomes :
       LET strategies == GetStrategiesForScenario(scenarioCode).items
           strategy   == strategies[stratIdx]
           result == AttemptGeneration(outcome, prompt, strategy.params, strategy.name)
       IN
       /\ generated' = Append(generated, outcome)
       /\ attemptLog' = Append(attemptLog, result.log)
       /\ currentAttempt' = currentAttempt + 1
       /\ IF QualityPassed(result)
            THEN /\ cur' = << result >>
                 /\ attempts' = currentAttempt'
                 /\ pc' = "rs_log"
                 /\ UNCHANGED << bestResult, bestQuality, stratIdx >>
            ELSE /\ IF ImprovesBest(result, bestQuality)
                      THEN bestResult' = << result >> /\ bestQuality' = result.quality.score
                      ELSE UNCHANGED << bestResult, bestQuality >>
                 /\ stratIdx' = stratIdx + 1
                 /\ pc' = IF LoopContinues(stratIdx', currentAttempt', strategies,
                                             thisMaxAttempts)
                            THEN "adaptive_call" ELSE "rf_log"
                 /\ UNCHANGED << cur, attempts >>
  /\ UNCHANGED << storeVars, concVars, evalVars, seqVars, thisMaxAttempts, sessionVars, genCalls, response, thrown, http, method, dbCalls >>
  /\ unchangedLocals

AuditRethrows(queryFails) ==
  IF queryFails THEN << "AuditWriteError" >> ELSE << >>

\* the catch blocks of logGeneration and updateMetrics: the error they let
\* through to the caller when their query fails (none: they log and return)
AuditCatch(queryFails) == << >>

\* DatabaseService.logGeneration, called by _recordSuccess and _recordFailure
LogGeneration ==
  /\ pc \in {"rs_log", "rf_log"}
  /\ LET result == IF pc = "rs_log" THEN cur ELSE bestResult
         row == [response      |-> IF result = << >> THEN << >> ELSE result[1].data,
                 quality_score |-> IF result = << >> THEN 0 ELSE result[1].quality.score,
                 attempts_count |-> IF pc = "rs_log" THEN attempts ELSE currentAttempt,
                 params_used   |-> IF result = << >> THEN << >> ELSE << result[1].log.params >>,
                 error_message |-> pc = "rf_log"]
     IN \E insertFails \in BOOLEAN :
          /\ faq_generations' = IF insertFails THEN faq_generations
                                ELSE Append(faq_generations, row)
          /\ dbCalls' = Append(dbCalls, DbCall("logGeneration", "", row.params_used,
                                               << row.quality_score >>, ~ insertFails))
          /\ IF AuditCatch(insertFails) # << >>
               THEN pc' = "thrown" /\ thrown' = AuditCatch(insertFails)
               ELSE /\ pc' = IF pc = "rs_log" THEN "rs_metrics" ELSE "rf_metrics"
                    /\ UNCHANGED thrown
  /\ UNCHANGED << adaptive_params, now, learning_metrics, eqs_cache, hist, concVars, evalVars, seqVars, thisMaxAttempts, sessionVars,
                  attemptLog, currentAttempt, bestResult, bestQuality, cur, attempts,
                  stratIdx, genCalls, generated, response, http, method >>
  /\ unchangedLocals

UpdateMetricsRowOverwrites(metrics, successful) ==
  [total_requests |-> 1, successful_requests |-> IF successful THEN 1 ELSE 0]

\* the statement of updateMetrics: INSERT today's row with total_requests = 1
\* and successful_requests = $1, or ON CONFLICT (metric_date) add 1 and $1
UpdateMetricsRow(metrics, successful) ==
  IF metrics = << >>
    THEN [total_requests |-> 1, successful_requests |-> IF successful THEN 1 ELSE 0]
    ELSE [total_requests |-> metrics[1].total_requests + 1,
          successful_requests |->
            metrics[1].successful_requests + (IF successful THEN 1 ELSE 0)]

\* DatabaseService.updateMetrics; after it _recordSuccess goes on to learn,
\* and _recordFailure is done: generateWithLearning formats the best result
UpdateMetrics ==
  /\ pc \in {"rs_metrics", "rf_metrics"}
  /\ LET row == UpdateMetricsRow(learning_metrics, pc = "rs_metrics")
     IN \E statementFails \in BOOLEAN :
          /\ learning_metrics' = IF statementFails THEN learning_metrics ELSE << row >>
          /\ metricsApplied' = IF statementFails THEN metricsApplied ELSE metricsApplied + 1
          /\ dbCalls' = Append(dbCalls, DbCall("updateMetrics", "", << >>, << >>,
                                               ~ statementFails))
          /\ IF AuditCatch(statementFails) # << >>
               THEN pc' = "thrown" /\ thrown' = AuditCatch(statementFails)
                    /\ UNCHANGED response
               ELSE IF pc = "rs_metrics"
                 THEN pc' = "rs_learn" /\ UNCHANGED << response, thrown >>
               ELSE IF bestResult = << >>
                 THEN pc' = "thrown" /\ thrown' = << "TypeError" >> /\ UNCHANGED response
               ELSE /\ pc' = "returned"
                    /\ response' = << FormatResponse(bestResult[1], attemptLog,
                                                     currentAttempt) >>
                    /\ UNCHANGED thrown
  /\ UNCHANGED << adaptive_params, now, faq_generations, eqs_cache, hist, concVars, evalVars, seqVars, thisMaxAttempts, earlier,
                  attemptLog, currentAttempt, bestResult, bestQuality, cur, attempts,
                  stratIdx, genCalls, generated, http, method >>
  /\ unchangedLocals

LearnParametersSwallows(queryFails) == << >>

\* the catch block of learnParameters: the error of a failed query is logged
\* and thrown again
LearnParametersError(queryFails) ==
  IF queryFails THEN << "StoreWriteError" >> ELSE << >>

\* the last statement of _recordSuccess: db.learnParameters('success', ...);
\* DatabaseService.learnParameters rethrows a failed query
LearnSuccess ==
  /\ pc = "rs_learn"
  /\ \E queryFails \in BOOLEAN :
       /\ dbCalls' = Append(dbCalls, DbCall("learnParameters", "success",
                                            << cur[1].log.params >>,
                                            << cur[1].quality.score >>, ~ queryFails))
       /\ IF queryFails
            THEN UNCHANGED << adaptive_params, now, hist >>
            ELSE /\ now' = now + 1
                 /\ adaptive_params' = UpdateAdaptiveParam(adaptive_params, "success",
                                         cur[1].log.params, cur[1].quality.score, now')
                 /\ hist' = Append(hist, [table |-> "adaptive_params", code |-> "success",
                                          params |-> cur[1].log.params,
                                          score |-> cur[1].quality.score])
       /\ IF LearnParametersError(queryFails) # << >>
            THEN /\ pc' = "thrown"
                 /\ thrown' = LearnParametersError(queryFails)
                 /\ UNCHANGED response
            ELSE /\ IF scenarioCode = ""
                      THEN /\ pc' = "returned"
                           /\ response' = << FormatResponse(cur[1], attemptLog, attempts) >>
                      ELSE pc' = "learn_scenario" /\ UNCHANGED response
                 /\ UNCHANGED thrown
  /\ UNCHANGED << faq_generations, learning_metrics, eqs_cache, concVars, evalVars, seqVars, thisMaxAttempts, sessionVars, attemptLog,
                  currentAttempt, bestResult, bestQuality, cur, attempts, stratIdx,
                  genCalls, generated, http, method >>
  /\ unchangedLocals

\* after an adaptive pass: db.learnParameters(scenarioCode, strategy.params, score)
LearnScenario ==
  /\ pc = "learn_scenario"
  /\ \E queryFails \in BOOLEAN :
       /\ dbCalls' = Append(dbCalls, DbCall("learnParameters", scenarioCode,
                                            << cur[1].log.params >>,
                                            << cur[1].quality.score >>, ~ queryFails))
       /\ IF queryFails
            THEN UNCHANGED << adaptive_params, now, hist >>
            ELSE /\ now' = now + 1
                 /\ adaptive_params' = UpdateAdaptiveParam(adaptive_params, scenarioCode,
                                         cur[1].log.params, cur[1].quality.score, now')
                 /\ hist' = Append(hist, [table |-> "adaptive_params", code |-> scenarioCode,
                                          params |-> cur[1].log.params,
                                          score |-> cur[1].quality.score])
       /\ IF LearnParametersError(queryFails) # << >>
            THEN /\ pc' = "thrown"
                 /\ thrown' = LearnParametersError(queryFails)
                 /\ UNCHANGED response
            ELSE /\ pc' = "returned"
                 /\ response' = << FormatResponse(cur[1], attemptLog, currentAttempt) >>
                 /\ UNCHANGED thrown
  /\ UNCHANGED << faq_generations, learning_metrics, eqs_cache, concVars, evalVars, seqVars, thisMaxAttempts, sessionVars, attemptLog,
                  currentAttempt, bestResult, bestQuality, cur, attempts, stratIdx,
                  genCalls, generated, http, method >>
  /\ unchangedLocals

\* the request handler answers 200 with the result of generateWithLearning
HandlerRespond ==
  /\ pc = "returned"
  /\ http' = << [status |-> 200, success |-> response[1].success,
                 faq |-> response[1].faq, quality |-> response[1].quality,
                 metadata |-> << response[1].metadata >>] >>
  /\ pc' = "responded"
  /\ UNCHANGED << storeVars, concVars, evalVars, seqVars, thisMaxAttempts, sessionVars, attemptLog, currentAttempt, bestResult,
                  bestQuality, cur, attempts, stratIdx, genCalls, generated, response, thrown, method, dbCalls >>
  /\ unchangedLocals

\* the catch block of the request handler answers 500 with an error body
HandlerCatch ==
  /\ pc = "thrown"
  /\ http' = << Reply(IF thrown[1] = "DATABASE_URL" THEN 503 ELSE 500) >>
  /\ pc' = "responded"
  /\ UNCHANGED << storeVars, concVars, evalVars, seqVars, thisMaxAttempts, sessionVars, attemptLog, currentAttempt, bestResult,
                  bestQuality, cur, attempts, stratIdx, genCalls, generated, response, thrown, method, dbCalls >>
  /\ unchangedLocals

Next ==
  \/ StartRequest
  \/ HealthCheck
  \/ GetBestParameters
  \/ GenerateCall
  \/ LearnedReturn
  \/ DefaultReturn
  \/ AdaptiveReturn
  \/ LogGeneration
  \/ UpdateMetrics
  \/ LearnSuccess
  \/ LearnScenario
  \/ HandlerRespond
  \/ HandlerCatch

Spec == Init /\ [][Next]_vars

\* the values this.maxAttempts is configured with: the 3 of the constructor,
\* the 2 the deployment guide suggests to cut costs, and 1
ConfiguredAttempts == {1, 2, maxAttempts}

\* a request to a learner whose maxAttempts was edited
InitAttempts ==
  /\ \E s \in InitialStores : adaptive_params = s.rows /\ now = s.now
  /\ InitRequest
  /\ InitRest
  /\ InitSeqIdle
  /\ InitEvalIdle
  /\ thisMaxAttempts \in ConfiguredAttempts

SpecAttempts == InitAttempts /\ [][Next]_vars

\* how a request ended, as later requests can depend on it: the status and
\* the success flag of the answer, and whether its upsert under 'success'
\* was applied
RequestOutcomeRecord ==
  [status  |-> http[1].status,
   success |-> http[1].success,
   learned |-> \E i \in DOMAIN dbCalls :
                 /\ dbCalls[i].op = "learnParameters"
                 /\ dbCalls[i].code = "success"
                 /\ dbCalls[i].ok]

\* the handler is invoked again: the next request of the session starts with
\* fresh locals on the database the earlier requests left
NextRequest ==
  /\ pc = "responded"
  /\ Len(earlier) < MaxRequests - 1
  /\ earlier' = Append(earlier, RequestOutcomeRecord)
  /\ pc' = "idle"
  /\ prompt' = NoPrompt
  /\ learnedParams' = << >>
  /\ attemptLog' = << >>
  /\ currentAttempt' = 0
  /\ bestResult' = << >>
  /\ bestQuality' = 0
  /\ cur' = << >>
  /\ attempts' = 0
  /\ scenarioCode' = ""
  /\ stratIdx' = 0
  /\ genCalls' = 0
  /\ generated' = << >>
  /\ response' = << >>
  /\ thrown' = << >>
  /\ http' = << >>
  /\ method' = ""
  /\ dbCalls' = << >>
  /\ UNCHANGED << storeVars, concVars, evalVars, seqVars, thisMaxAttempts, metricsApplied >>

\* the updateMetrics statements of other requests that the database applied
OthersApplied ==
  metricsApplied
    - Cardinality({ i \in DOMAIN dbCalls : dbCalls[i].op = "updateMetrics" /\ dbCalls[i].ok })

\* the updateMetrics statement of another request of the day, before, during
\* or after this one
OverlappingUpdateMetrics ==
  /\ OthersApplied < MaxOverlapping
  /\ \E successful \in BOOLEAN :
       learning_metrics' = << UpdateMetricsRow(learning_metrics, successful) >>
  /\ metricsApplied' = metricsApplied + 1
  /\ UNCHANGED << adaptive_params, now, faq_generations, eqs_cache, hist, concVars, evalVars,
                  seqVars, pc, prompt, learnedParams, attemptLog, currentAttempt, bestResult,
                  bestQuality, cur, attempts, scenarioCode, stratIdx, genCalls,
                  generated, response, thrown, http, method, dbCalls, thisMaxAttempts,
                  earlier >>

NextSession == Next \/ NextRequest

\* the requests of a session, one after the other, on a freshly initialised
\* database
SpecSession == InitStore /\ [][NextSession]_vars

NextMetrics == Next \/ OverlappingUpdateMetrics

\* a request and the updateMetrics statements of the other requests of the day
SpecMetrics == Init /\ [][NextMetrics]_vars

\* the request is served to its end when every call returns
SpecLive == Init /\ [][Next]_vars /\ WF_vars(Next)

(***************************************************************************)
(* Properties of generateWithLearning (specification Spec)                 *)
(***************************************************************************)
\* the request handler called generateWithLearning, whose first statement is
\* the read of the learned configuration
CoreRan == \E i \in DOMAIN dbCalls : dbCalls[i].op = "getBestParameters"

\* generateWithLearning is over: it returned or threw
Finished == CoreRan /\ pc \in {"returned", "thrown", "responded"}

\* the i-th generation call returned an artifact that passes quality
Passed(i) ==
  /\ generated[i] # "error"
  /\ EvaluateQuality(Candidates[generated[i]], prompt).passed

\* the i-th generation call returned an artifact that was scored and failed
ScoredBelow(i) ==
  /\ generated[i] # "error"
  /\ ~ EvaluateQuality(Candidates[generated[i]], prompt).passed

\* C1: a single request issues at most 3 generation calls, whatever the
\* store holds and however each attempt ends (pass, fail, generation error)
C1_AtMostThreeGenerationCalls == genCalls <= 3

\* a request with a learned configuration that used all three calls
C1_Witness ==
  /\ pc = "responded"
  /\ genCalls = 3
  /\ learnedParams # << >>
  /\ \E i \in 1 .. 3 : generated[i] = "error"

\* C2: an attempt whose generation call failed is logged as a failed attempt
\* with score 0, counts as an attempt, and never makes generateWithLearning
\* throw: the request goes on to the next attempt or ends exhausted
C2_GenerationErrorNonFatal ==
  /\ \A i \in DOMAIN attemptLog :
       generated[i] = "error" => attemptLog[i].error /\ attemptLog[i].qualityScore = << >>
  /\ (\E i \in DOMAIN generated : generated[i] = "error") => thrown # << "TypeError" >>

\* C3: when the store write of the learn step fails after an attempt passed,
\* the caller still receives the passing artifact (status 200)
C3_StoreWriteFailureNonFatal ==
  (thrown = << "StoreWriteError" >> /\ http # << >>) =>
     /\ http[1].status = 200
     /\ http[1].faq = cur[1].data

\* the earliest attempt among those with the highest logged score
BestAttempt ==
  CHOOSE k \in DOMAIN attemptLog :
    /\ \A i \in DOMAIN attemptLog :
         attemptLog[i].qualityScore[1] <= attemptLog[k].qualityScore[1]
    /\ \A i \in 1 .. (k - 1) :
         attemptLog[i].qualityScore[1] < attemptLog[k].qualityScore[1]

\* C8: when every attempt of a request was scored below the threshold, the
\* request returns success = false after exactly 3 attempts, with the
\* artifact and the quality of the highest-scoring attempt, the earliest on ties
C8_ExhaustedReturnsBest ==
  (Finished /\ generated # << >> /\ \A i \in DOMAIN generated : ScoredBelow(i)) =>
     /\ response # << >>
     /\ response[1].success = FALSE
     /\ response[1].metadata.attempts = 3
     /\ Len(attemptLog) = 3
     /\ response[1].faq = << generated[BestAttempt] >>
     /\ response[1].quality.score = attemptLog[BestAttempt].qualityScore[1]
     /\ response[1].quality =
          LET q == EvaluateQuality(Candidates[generated[BestAttempt]], prompt)
          IN [score |-> q.score, level |-> q.level, breakdown |-> q.breakdown]

\* an exhausted request whose two best attempts tie with different artifacts
C8_Witness ==
  /\ pc = "responded"
  /\ generated = << "noAnswer", "noAnswerKw", "empty" >>
  /\ response[1].faq = << "noAnswer" >>

\* C9: when the first generation call passes, generateWithLearning returns
\* success = true with attempt count 1 and a log of one entry, 'learned' if
\* a learned configuration was read and 'default' otherwise, and no further
\* generation call is issued
C9_FirstCallPasses ==
  (generated # << >> /\ Passed(1)) =>
     /\ genCalls = 1
     /\ Len(attemptLog) = 1
     /\ attemptLog[1].strategy = IF learnedParams # << >> THEN "learned" ELSE "default"
     /\ Finished =>
          /\ response # << >>
          /\ response[1].success
          /\ response[1].metadata.attempts = 1
          /\ response[1].metadata.attemptLog = attemptLog

IsAdaptive(entry) == entry.strategy \notin {"learned", "default"}

DefaultEntries == { i \in DOMAIN attemptLog : attemptLog[i].strategy = "default" }

\* C10: the log has the shape learned? -> default -> adaptive*: 'learned'
\* only as first entry, 'default' exactly once unless the learned attempt
\* passed (then never), adaptive entries only after a failed default attempt
\* and in the catalog order of one strategy list
C10_AttemptLogOrder ==
  /\ \A i \in DOMAIN attemptLog : attemptLog[i].strategy = "learned" => i = 1
  /\ Cardinality(DefaultEntries) <= 1
  /\ Finished =>
       IF attemptLog[1].strategy = "learned" /\ Passed(1)
         THEN DefaultEntries = {}
         ELSE Cardinality(DefaultEntries) = 1
  /\ \A i \in DOMAIN attemptLog :
       IsAdaptive(attemptLog[i]) =>
         \E d \in DefaultEntries : d < i /\ ~ Passed(d)
  /\ \E code \in DOMAIN adaptiveStrategies :
       \A i \in DOMAIN attemptLog :
         IsAdaptive(attemptLog[i]) =>
           \E d \in DefaultEntries :
             /\ i - d \in 1 .. Len(adaptiveStrategies[code])
             /\ attemptLog[i].strategy = adaptiveStrategies[code][i - d].name
             /\ attemptLog[i].params = adaptiveStrategies[code][i - d].params

\* no learned configuration, the default attempt failed, two strategies tried
C10_Witness ==
  /\ pc = "responded"
  /\ Len(attemptLog) = 3
  /\ attemptLog[1].strategy = "default"
  /\ attemptLog[2].strategy = "adjust_length"
  /\ attemptLog[3].strategy = "balanced_output"

\* the read of the learned configuration failed
ReadFailed ==
  \E i \in DOMAIN dbCalls :
    dbCalls[i].op = "getBestParameters" /\ ~ dbCalls[i].ok

\* C11: a failed read of the best 'success' configuration is treated as "no
\* learned configuration": no learned attempt is made, the default attempt
\* comes first, and nothing is thrown before the default attempt is issued
C11_ReadFailureMeansNoLearnedConfig ==
  ReadFailed =>
    /\ learnedParams = << >>
    /\ \A i \in DOMAIN attemptLog : attemptLog[i].strategy # "learned"
    /\ attemptLog # << >> => attemptLog[1].strategy = "default"
    /\ genCalls = 0 => pc = "default_call"
    /\ thrown # << >> => genCalls >= 1

\* the store holds a 'success' row, its read failed, and the request was
\* answered 200 after starting with the default attempt
C11_Witness ==
  /\ ReadFailed
  /\ hist = << >>
  /\ GetBestParams(adaptive_params, "success") # {}
  /\ pc = "responded"
  /\ http[1].status = 200
  /\ attemptLog[1].strategy = "default"

\* the request called learnParameters(code, params, score)
LearnCalled(code, params, score) ==
  \E j \in DOMAIN dbCalls :
    /\ dbCalls[j].op = "learnParameters"
    /\ dbCalls[j].code = code
    /\ dbCalls[j].params = << params >>
    /\ dbCalls[j].score = << score >>

\* C12: when the learned or the default attempt passes quality, the request
\* upserts that attempt's configuration and score under 'success' and
\* returns success at once, with no further generation call
C12_EarlyPassLearnsAndReturns ==
  \A i \in DOMAIN attemptLog :
    (Finished /\ attemptLog[i].strategy \in {"learned", "default"} /\ Passed(i)) =>
      /\ LearnCalled("success", attemptLog[i].params, attemptLog[i].qualityScore[1])
      /\ response # << >>
      /\ response[1].success
      /\ genCalls = i

\* C13: when an adaptive attempt passes quality, the request upserts that
\* strategy's configuration and the attempt's score under the scenario code
\* of the request, and the response carries that attempt's artifact with
\* success = true
C13_AdaptivePassLearnsScenario ==
  \A i \in DOMAIN attemptLog :
    (Finished /\ IsAdaptive(attemptLog[i]) /\ Passed(i)) =>
      /\ LearnCalled(scenarioCode, attemptLog[i].params, attemptLog[i].qualityScore[1])
      /\ response # << >>
      /\ response[1].success
      /\ response[1].faq = << generated[i] >>

\* a logGeneration or updateMetrics query of the request failed
AuditFailed ==
  \E i \in DOMAIN dbCalls :
    dbCalls[i].op \in {"logGeneration", "updateMetrics"} /\ ~ dbCalls[i].ok

\* the position in dbCalls of the updateMetrics call, if it was made
MetricsCalls == { i \in DOMAIN dbCalls : dbCalls[i].op = "updateMetrics" }

\* C21: a failed logGeneration or updateMetrics write is swallowed: whatever
\* is thrown comes from elsewhere (a failed learn upsert, or the TypeError of
\* a failed generation call), the learn upsert of a successful request is
\* still issued right after updateMetrics, and the result returned is the
\* formatted passing (or best) attempt as without the failure
C21_AuditFailureSwallowed ==
  AuditFailed =>
    /\ thrown # << >> =>
         \/ /\ thrown[1] = "StoreWriteError"
            /\ dbCalls[Len(dbCalls)].op = "learnParameters"
            /\ ~ dbCalls[Len(dbCalls)].ok
         \/ /\ thrown[1] = "TypeError"
            /\ \E i \in DOMAIN generated : generated[i] = "error"
    /\ \A i \in MetricsCalls :
         (cur # << >> /\ pc # "rs_learn") =>
           /\ i < Len(dbCalls)
           /\ dbCalls[i + 1].op = "learnParameters"
           /\ dbCalls[i + 1].code = "success"
           /\ dbCalls[i + 1].params = << cur[1].log.params >>
    /\ response # << >> =>
         response[1] = IF cur # << >>
                         THEN FormatResponse(cur[1], attemptLog, attempts)
                         ELSE FormatResponse(bestResult[1], attemptLog, currentAttempt)
    /\ (pc = "responded" /\ response # << >>) => http[1].status = 200

\* both audit writes of a passing request failed; its configuration was
\* learned and it was answered 200 with success = true
C21_Witness ==
  /\ \E i \in DOMAIN dbCalls : dbCalls[i].op = "logGeneration" /\ ~ dbCalls[i].ok
  /\ \E i \in DOMAIN dbCalls : dbCalls[i].op = "updateMetrics" /\ ~ dbCalls[i].ok
  /\ faq_generations = << >>
  /\ learning_metrics = << >>
  /\ hist # << >>
  /\ pc = "responded"
  /\ http[1].status = 200
  /\ http[1].success

\* generateWithLearning was entered, and the handler has answered
CoreStarted == pc = "getBest"
RequestEnds == CoreStarted ~> (pc = "responded")

\* C22: when every generation call and every store call returns, a request
\* that entered generateWithLearning eventually gets its final outcome from
\* it: the formatted response of a passing attempt (success) or of the best
\* attempt after the attempts ran out (exhausted)
C22_ReachesSuccessOrExhausted == CoreStarted ~> (response # << >>)

\* C23: a request issues at most this.maxAttempts generation calls, whatever
\* positive value maxAttempts is configured with
C23_AtMostMaxAttemptsCalls == genCalls <= thisMaxAttempts

\* the request waits for gemini.generateFAQ to return
GenerationInFlight == pc \in {"learned_wait", "default_wait", "adaptive_wait"}

\* C26: the attempts of a request are strictly sequential: at most one
\* generation call is in flight, and whenever a call is issued or the request
\* has moved on, every earlier call has returned and its attempt is scored
\* and appended to the attempt log
C26_OneGenerationInFlight ==
  /\ genCalls - Len(attemptLog) \in {0, 1}
  /\ genCalls = Len(attemptLog) + 1 <=> GenerationInFlight
  /\ Len(generated) = Len(attemptLog)
  /\ \A i \in DOMAIN attemptLog :
       /\ attemptLog[i].error <=> generated[i] = "error"
       /\ ~ attemptLog[i].error => attemptLog[i].qualityScore # << >>

\* the third generation call is in flight, the first two are in the log
C26_Witness ==
  /\ pc = "adaptive_wait"
  /\ genCalls = 3
  /\ Len(attemptLog) = 2
  /\ Len(generated) = 2

\* _recordFailure has called logGeneration
FailureRecorded ==
  cur = << >> /\ \E i \in DOMAIN dbCalls : dbCalls[i].op = "logGeneration"

\* the attempt log a row of faq_generations carries, if it has one
LoggedAttemptLog(row) ==
  IF "attempt_log" \in DOMAIN row THEN << row.attempt_log >> ELSE << >>

\* C27: on exhaustion exactly one failure record is written, and it carries
\* the best-so-far artifact, the attempt count and the full attempt log
C27_FailureRecordCarriesAttemptLog ==
  FailureRecorded =>
    /\ Len(faq_generations) = 1
    /\ faq_generations[1].error_message
    /\ bestResult # << >> => faq_generations[1].response = bestResult[1].data
    /\ faq_generations[1].attempts_count = currentAttempt
    /\ LoggedAttemptLog(faq_generations[1]) = << attemptLog >>

\* the position of the default attempt in the attempt log
DefaultIndex == IF learnedParams = << >> THEN 1 ELSE 2

\* the quality of the default attempt, evaluated again from what the
\* generation call returned
DefaultQuality ==
  AttemptGeneration(generated[DefaultIndex], prompt, defaultParams, "default").quality

ScenarioInv ==
  /\ scenarioCode # "" =>
       /\ Len(attemptLog) >= DefaultIndex
       /\ attemptLog[DefaultIndex].strategy = "default"
       /\ scenarioCode = GetScenarioCode(DefaultQuality)
  /\ Len(attemptLog) > DefaultIndex => scenarioCode # ""
  /\ \A i \in DOMAIN attemptLog :
       i > DefaultIndex =>
         LET strategies == GetStrategiesForScenario(scenarioCode).items IN
         /\ i - DefaultIndex <= Len(strategies)
         /\ attemptLog[i].strategy = strategies[i - DefaultIndex].name
         /\ attemptLog[i].params = strategies[i - DefaultIndex].params
  /\ \A i \in DOMAIN dbCalls :
       (dbCalls[i].op = "learnParameters" /\ dbCalls[i].code # "success") =>
         /\ dbCalls[i].code = scenarioCode
         /\ IsAdaptive(cur[1].log)

\* C28: the scenario code of a request is classified once, from the breakdown
\* of the default attempt (not of the learned, the best-so-far or an adaptive
\* attempt); every adaptive attempt uses the strategy at its position in that
\* code's list, and the learn upsert after an adaptive pass is keyed by it
C28_ScenarioFromDefaultAttempt ==
  /\ [] ScenarioInv
  /\ [][scenarioCode # "" => scenarioCode' = scenarioCode]_vars

\* the learned attempt failed on structure with the better score, the default
\* attempt failed on completeness, and an adaptive attempt passed and was
\* learned under the default attempt's code
C28_Witness ==
  /\ learnedParams # << >>
  /\ Len(generated) >= 3
  /\ generated[1] = "noStruct"
  /\ generated[2] = "noAnswer"
  /\ bestResult # << >>
  /\ bestResult[1].log.strategy = "learned"
  /\ GetScenarioCode(bestResult[1].quality) # scenarioCode
  /\ scenarioCode = GetScenarioCode(DefaultQuality)
  /\ \E i \in DOMAIN dbCalls :
       dbCalls[i].op = "learnParameters" /\ dbCalls[i].code = scenarioCode

\* no generation call of the request has returned a passing artifact
NoAttemptPassed == \A i \in DOMAIN generated : ~ Passed(i)

\* a learn upsert was issued by the request
LearnIssued == \E i \in DOMAIN dbCalls : dbCalls[i].op = "learnParameters"

ExhaustedInv ==
  NoAttemptPassed =>
    /\ hist = << >>
    /\ ~ LearnIssued
    /\ learnedParams # << >> =>
         learnedParams \in GetBestParametersResult(adaptive_params, FALSE)

\* C29: a request without a passing attempt leaves adaptive_params as it
\* was: no learn upsert is issued, no row is changed or removed, and the
\* learned configuration that failed is still what getBestParameters
\* ('success') returns
C29_ExhaustedLeavesStoreUnchanged ==
  /\ [] ExhaustedInv
  /\ [][NoAttemptPassed' => (adaptive_params' = adaptive_params /\ now' = now)]_vars

\* a request with a learned configuration was exhausted after three failed
\* attempts and answered
C29_Witness ==
  /\ pc = "responded"
  /\ learnedParams # << >>
  /\ Len(generated) = 3
  /\ NoAttemptPassed
  /\ response # << >>
  /\ ~ response[1].success
  /\ hist = << >>
  /\ learnedParams \in GetBestParametersResult(adaptive_params, FALSE)

\* the rows of adaptive_params stored under 'success'
SuccessRows == { r \in adaptive_params : r.scenario_code = "success" }

\* the positions in dbCalls of the reads of adaptive_params
StoreReads == { i \in DOMAIN dbCalls : dbCalls[i].op = "getBestParameters" }

\* the configuration the i-th attempt has to run with: the learned one, the
\* default one, or the strategy of the default attempt's scenario code
AttemptParams(i) ==
  IF i < DefaultIndex THEN learnedParams[1]
  ELSE IF i = DefaultIndex THEN defaultParams
  ELSE GetStrategiesForScenario(GetScenarioCode(DefaultQuality)).items[i - DefaultIndex].params

\* C30: generateWithLearning reads the store once, at its start, and under
\* 'success' only; the learned configuration is the best row stored under
\* 'success', and the rows stored under failure scenario codes have no part
\* in the configuration of any attempt
C30_ReadsOnlySuccessOnce ==
  /\ Cardinality(StoreReads) <= 1
  /\ \A i \in StoreReads :
       /\ dbCalls[i].code = "success"
       /\ \A j \in 1 .. i - 1 : dbCalls[j].op = "healthCheck"
  /\ genCalls > 0 => StoreReads # {}
  /\ (learnedParams # << >> /\ hist = << >>) =>
       learnedParams \in { << r.params >> : r \in GetBestParams(SuccessRows, "success") }
  /\ \A i \in DOMAIN attemptLog : attemptLog[i].params = AttemptParams(i)

\* the store holds a row under 'length_issue' that is not the best row under
\* 'success'; the learned attempt ran with the best 'success' row and the
\* adaptive attempt with a strategy of the catalog
C30_Witness ==
  /\ \E r \in adaptive_params :
       r.scenario_code = "length_issue" /\ << r.params >> # learnedParams
  /\ learnedParams = << defaultParams >>
  /\ Len(attemptLog) = 3
  /\ attemptLog[1].strategy = "learned"
  /\ attemptLog[1].params = defaultParams
  /\ IsAdaptive(attemptLog[3])
  /\ pc = "responded"

\* the positions in dbCalls of the learn upserts of the request
LearnCalls == { i \in DOMAIN dbCalls : dbCalls[i].op = "learnParameters" }

\* an adaptive attempt passed and generateWithLearning returned
AdaptivePassReturned ==
  /\ cur # << >>
  /\ IsAdaptive(cur[1].log)
  /\ response # << >>

\* C31: after an adaptive pass the request upserts ('success', strategy
\* config, score) and then (scenarioCode, strategy config, score); when the
\* first upsert fails the second is never attempted; after both went through
\* the strategy config is a row under 'success', which getBestParameters
\* ('success') of later requests ranks
C31_AdaptivePassUpsertsInOrder ==
  /\ \A j \in LearnCalls :
       dbCalls[j].code # "success" =>
         /\ j - 1 \in LearnCalls
         /\ dbCalls[j - 1].code = "success"
         /\ dbCalls[j - 1].ok
         /\ dbCalls[j - 1].params = dbCalls[j].params
         /\ dbCalls[j - 1].score = dbCalls[j].score
         /\ dbCalls[j].code = scenarioCode
         /\ dbCalls[j].params = << cur[1].log.params >>
         /\ dbCalls[j].score = << cur[1].quality.score >>
  /\ \A j \in LearnCalls :
       (dbCalls[j].code = "success" /\ ~ dbCalls[j].ok) => j = Len(dbCalls)
  /\ AdaptivePassReturned =>
       /\ Cardinality(LearnCalls) = 2
       /\ \A j \in LearnCalls : dbCalls[j].ok
       /\ \E r \in adaptive_params :
            r.scenario_code = "success" /\ r.params = cur[1].log.params
       /\ \E r \in adaptive_params :
            r.scenario_code = scenarioCode /\ r.params = cur[1].log.params

\* an adaptive attempt passed, both upserts went through, and the strategy
\* config is the best row under 'success'
C31_Witness ==
  /\ AdaptivePassReturned
  /\ pc = "responded"
  /\ Len(hist) = 2
  /\ hist[1].code = "success"
  /\ hist[2].code = scenarioCode
  /\ << cur[1].log.params >> \in GetBestParametersResult(adaptive_params, FALSE)

\* C32: in every response generateWithLearning returns, metadata.attempts
\* is the length of metadata.attemptLog, which is the number of generation
\* calls the request issued
C32_AttemptsEqualsLogEqualsCalls ==
  response # << >> =>
    /\ response[1].metadata.attempts = Len(response[1].metadata.attemptLog)
    /\ Len(response[1].metadata.attemptLog) = genCalls

\* a response after a failed learned attempt and a passing default attempt
C32_Witness ==
  /\ response # << >>
  /\ learnedParams # << >>
  /\ response[1].metadata.attempts = 2
  /\ genCalls = 2
  /\ response[1].success

\* the quality of the artifact a response carries, evaluated again
ReturnedArtifactPassed ==
  /\ response[1].faq # << >>
  /\ EvaluateQuality(Candidates[response[1].faq[1]], prompt).passed

HasLearnedEntry ==
  \E i \in DOMAIN attemptLog : attemptLog[i].strategy = "learned"

\* a request of the session had its upsert under 'success' applied
LearnedEarlier == \E i \in DOMAIN earlier : earlier[i].learned

FirstStartsWithDefault ==
  (earlier = << >> /\ attemptLog # << >>) => attemptLog[1].strategy = "default"

LearnedOnlyAfterUpsert ==
  /\ HasLearnedEntry => LearnedEarlier
  /\ FirstStartsWithDefault

\* C34: on a freshly initialised store a request makes a 'learned' attempt
\* only if an earlier request completed successfully (it was answered with
\* success = true) and its upsert under 'success' was applied; the first
\* request starts with the 'default' attempt
C34_LearnedOnlyAfterSuccessfulRequest ==
  /\ HasLearnedEntry =>
       \E i \in DOMAIN earlier : earlier[i].success /\ earlier[i].learned
  /\ FirstStartsWithDefault

\* C35: today's learning_metrics row counts the updateMetrics statements the
\* database applied, of this request and of the others: total_requests is
\* their number and 0 <= successful_requests <= total_requests; a request
\* for which generateWithLearning returns a response has called updateMetrics
\* exactly once
C35_MetricsRowCountsAppliedCalls ==
  /\ learning_metrics = << >> <=> metricsApplied = 0
  /\ learning_metrics # << >> =>
       /\ learning_metrics[1].total_requests = metricsApplied
       /\ 0 <= learning_metrics[1].successful_requests
       /\ learning_metrics[1].successful_requests <= learning_metrics[1].total_requests
  /\ Cardinality(MetricsCalls) <= 1
  /\ response # << >> => Cardinality(MetricsCalls) = 1

\* the statement of the request was applied between those of two other
\* requests, one of them successful, and the request returned a response
C35_Witness ==
  /\ response # << >>
  /\ \E i \in MetricsCalls : dbCalls[i].ok
  /\ OthersApplied = 2
  /\ learning_metrics[1].total_requests = 3
  /\ learning_metrics[1].successful_requests = 1

\* the health check of the request reported unhealthy
Unhealthy ==
  \E i \in DOMAIN dbCalls : dbCalls[i].op = "healthCheck" /\ ~ dbCalls[i].ok

\* C36: when the health check reports unhealthy the handler answers 503 and
\* generateWithLearning is not invoked: no generation call, no read or upsert
\* of the store, no audit row and no metrics row
C36_UnhealthyAnswers503 ==
  Unhealthy =>
    /\ pc = "responded"
    /\ http = << Reply(503) >>
    /\ Len(dbCalls) = 1
    /\ genCalls = 0
    /\ generated = << >>
    /\ attemptLog = << >>
    /\ response = << >>
    /\ hist = << >>
    /\ \E st \in InitialStores : adaptive_params = st.rows /\ now = st.now
    /\ faq_generations = << >>
    /\ learning_metrics = << >>
    /\ metricsApplied = 0

\* a valid POST request met an unhealthy database and was answered 503
C36_Witness ==
  /\ Unhealthy
  /\ method = "POST"
  /\ ValidatePrompt(prompt) = "ok"
  /\ pc = "responded"
  /\ http[1].status = 503

\* the request handler answered 400
Rejected == http # << >> /\ http[1].status = 400

\* C18: validation accepts a string prompt exactly when its length is in
\* [5, 5000]: lengths 5 and 5000 pass, lengths 4 and 5001 are answered 400
C18_ValidationAcceptsFiveToFiveThousand ==
  (pc # "idle" /\ method = "POST" /\ prompt.type = "string") =>
    /\ Rejected <=> ~ (prompt.length >= 5 /\ prompt.length <= 5000)
    /\ prompt.length \in {5, 5000} => ~ Rejected
    /\ prompt.length \in {4, 5001} => Rejected

\* a prompt of 5000 characters went through to generateWithLearning and was
\* answered 200
C18_Witness ==
  /\ method = "POST"
  /\ prompt.type = "string"
  /\ prompt.length = 5000
  /\ CoreRan
  /\ pc = "responded"
  /\ http[1].status = 200

\* C19: a POST request whose prompt is missing, not a string or outside the
\* length range is answered 400 before the core runs: no generation call, no
\* call of the store (no read, no upsert), no audit row, no metrics row
C19_InvalidPromptNeverReachesCore ==
  (pc # "idle" /\ method = "POST"
     /\ (prompt.type # "string" \/ prompt.length < 5 \/ prompt.length > 5000)) =>
    /\ pc = "responded"
    /\ Rejected
    /\ genCalls = 0
    /\ generated = << >>
    /\ dbCalls = << >>
    /\ hist = << >>
    /\ \E st \in InitialStores : adaptive_params = st.rows /\ now = st.now
    /\ faq_generations = << >>
    /\ learning_metrics = << >>
    /\ attemptLog = << >>

\* a request with a prompt that is not a string was answered 400
C19_Witness ==
  /\ method = "POST"
  /\ prompt.type = "number"
  /\ Rejected
  /\ dbCalls = << >>

(***************************************************************************)
(* The stores on their own (specification SpecStore): any sequence of      *)
(* learn calls against the freshly initialised database.                   *)
(***************************************************************************)
\* DatabaseService.learnParameters: SELECT update_adaptive_param($1, $2, $3)
LearnParameters ==
  /\ Len(hist) < MaxUpserts
  /\ \E code \in StoreCodes, params \in StoreParams, score \in StoreScores :
       /\ now' = now + 1
       /\ adaptive_params' = UpdateAdaptiveParam(adaptive_params, code, params, score, now')
       /\ hist' = Append(hist, [table |-> "adaptive_params", code |-> code,
                                params |-> params, score |-> score])
  /\ UNCHANGED << faq_generations, learning_metrics, eqs_cache, reqVars, concVars, evalVars >>

\* SSSInterface.learnAndStoreParam(pqsCode, successfulParam, eqsScore)
LearnAndStore ==
  /\ Len(hist) < MaxUpserts
  /\ \E code \in PqsCodes, params \in StoreParams, score \in StoreScores :
       /\ eqs_cache' = LearnAndStoreParam(eqs_cache, code, params, score)
       /\ hist' = Append(hist, [table |-> "eqs_cache", code |-> code,
                                params |-> params, score |-> score])
  /\ UNCHANGED << adaptive_params, now, faq_generations, learning_metrics,
                  reqVars, concVars, evalVars >>

NextStore == LearnParameters \/ LearnAndStore

SpecStore == InitStore /\ [][NextStore]_vars

\* the learn calls applied so far to adaptive_params for one scenario code
CallsFor(code) ==
  SelectSeq(hist, LAMBDA h : h.table = "adaptive_params" /\ h.code = code)

\* the step applies the learn call `call` to table `table`
Applies(table, call) ==
  /\ hist' = Append(hist, call)
  /\ call.table = table

BestScore(rows, code) ==
  IF GetBestParams(rows, code) = {} THEN -1
  ELSE (CHOOSE r \in GetBestParams(rows, code) : TRUE).quality_score

\* C6: for every scenario code the best score the store returns never
\* decreases, whatever the order of scores and configs; no step deletes a
\* record or lowers a stored score
C6_BestScoreMonotone ==
  [][ /\ \A code \in StoreCodes \cup {"default", "technical", "creative"} :
           BestScore(adaptive_params', code) >= BestScore(adaptive_params, code)
      /\ \A r \in adaptive_params :
           \E q \in adaptive_params' :
             /\ q.scenario_code = r.scenario_code
             /\ q.params = r.params
             /\ q.quality_score >= r.quality_score
      /\ \A code \in PqsCodes :
           eqs_cache[code] # << >> =>
             /\ eqs_cache'[code] # << >>
             /\ eqs_cache'[code][1].eqs_score >= eqs_cache[code][1].eqs_score
    ]_vars

\* a record was upserted again with a lower score and kept the higher one
C6_Witness ==
  /\ Len(hist) = 3
  /\ hist[1] = [table |-> "adaptive_params", code |-> "length_issue",
                params |-> defaultParams, score |-> 800]
  /\ hist[2] = [table |-> "adaptive_params", code |-> "length_issue",
                params |-> defaultParams, score |-> 400]
  /\ hist[3].table = "eqs_cache"
  /\ BestScore(adaptive_params, "length_issue") = 800

\* the rows of one scenario code
RowsOf(code) == { r \in adaptive_params : r.scenario_code = code }

\* C20: among several rows of a scenario code, get_best_params returns the
\* row with the highest score; among those with that score the one with the
\* highest success_count; among those the most recently updated one
C20_BestIsHighestScoreThenCountThenRecency ==
  \A code \in StoreCodes :
    /\ RowsOf(code) # {} => Cardinality(GetBestParams(adaptive_params, code)) = 1
    /\ \A best \in GetBestParams(adaptive_params, code) :
         /\ best \in RowsOf(code)
         /\ \A other \in RowsOf(code) :
              /\ best.quality_score >= other.quality_score
              /\ best.quality_score = other.quality_score =>
                   best.success_count >= other.success_count
              /\ (best.quality_score = other.quality_score
                    /\ best.success_count = other.success_count) =>
                   best.updated_at >= other.updated_at

\* two rows of 'success' with the same score: the one learned twice is the
\* best although the other one was updated later
C20_Witness ==
  \E best \in GetBestParams(adaptive_params, "success") :
    \E other \in RowsOf("success") :
      /\ other.quality_score = best.quality_score
      /\ best.success_count = 2
      /\ other.success_count = 1
      /\ other.updated_at > best.updated_at

(***************************************************************************)
(* Overlapping learn calls (specification SpecConc): every client issues   *)
(* one learnParameters call; the database applies the statements one at a  *)
(* time, in any order.                                                     *)
(***************************************************************************)
\* a request calls DatabaseService.learnParameters: the query is sent
ClientLearnCall(c) ==
  /\ cpc[c] = "idle"
  /\ \E code \in StoreCodes, params \in StoreParams, score \in StoreScores :
       carg' = [carg EXCEPT ![c] = << [table |-> "adaptive_params", code |-> code,
                                       params |-> params, score |-> score] >>]
  /\ cpc' = [cpc EXCEPT ![c] = "sent"]
  /\ UNCHANGED << storeVars, reqVars, evalVars >>

\* the database runs the client's SELECT update_adaptive_param(...), or the
\* query fails and learnParameters rethrows
ClientLearnApply(c) ==
  /\ cpc[c] = "sent"
  /\ \E queryFails \in BOOLEAN :
       IF queryFails
         THEN /\ cpc' = [cpc EXCEPT ![c] = "failed"]
              /\ UNCHANGED << adaptive_params, now, hist >>
         ELSE /\ cpc' = [cpc EXCEPT ![c] = "done"]
              /\ now' = now + 1
              /\ adaptive_params' = UpdateAdaptiveParam(adaptive_params, carg[c][1].code,
                                      carg[c][1].params, carg[c][1].score, now')
              /\ hist' = Append(hist, carg[c][1])
  /\ UNCHANGED << faq_generations, learning_metrics, eqs_cache, reqVars, carg, evalVars >>

NextConc == \E c \in Clients : ClientLearnCall(c) \/ ClientLearnApply(c)

SpecConc == InitStore /\ [][NextConc]_vars

\* the clients whose learn call for (code, params) was applied
AppliedCalls(code, params) ==
  { c \in Clients : cpc[c] = "done" /\ carg[c][1].code = code /\ carg[c][1].params = params }

MaxScore(cs) == CHOOSE s \in { carg[c][1].score : c \in cs } :
                  \A c \in cs : carg[c][1].score <= s

\* C7: once overlapping learn calls are over, in every order of execution
\* the record keeps the highest of their scores and its success count is the
\* number of calls applied: no update is lost
C7_NoLostUpdate ==
  (\A c \in Clients : cpc[c] \in {"done", "failed"}) =>
    \A code \in StoreCodes :
      /\ \A params \in StoreParams :
           LET cs == AppliedCalls(code, params) IN
           cs # {} =>
             \E r \in adaptive_params :
               /\ r.scenario_code = code
               /\ r.params = params
               /\ r.success_count = Cardinality(cs)
               /\ r.quality_score = MaxScore(cs)
      /\ LET all == UNION { AppliedCalls(code, params) : params \in StoreParams } IN
         all # {} => BestScore(adaptive_params, code) = MaxScore(all)

\* two calls for the same record overlapped; the lower score was applied last
C7_Witness ==
  /\ \A c \in Clients : cpc[c] = "done"
  /\ carg[1][1].code = "success" /\ carg[2][1].code = "success"
  /\ carg[1][1].params = carg[2][1].params
  /\ carg[1][1].score = 400 /\ carg[2][1].score = 800
  /\ hist[1] = carg[2][1]
  /\ hist[Len(hist)] = carg[1][1]


(***************************************************************************)
(* The evaluator and the strategy catalog on their own (specification      *)
(* SpecEval): evaluateQuality, getScenarioCode and                         *)
(* _getStrategiesForScenario applied to arguments drawn from the sets      *)
(* below, and chained as generateWithLearning chains them after a default  *)
(* attempt.                                                                *)
(***************************************************************************)
\* answer.split(/\s+/).length at the borders of _evaluateLength
WordCounts == {1, 9, 10, 29, 30, 49, 50, 300, 301, 500, 501}

\* title.split(/\s+/).length at the borders of _evaluateStructure
TitleWordCounts == {1, 3, 15, 16}

\* prompts by keyword count: none, two, and 125 (with 125 keywords every
\* match ratio is a whole number of thousandths after * 0.5)
EvalPrompts ==
  { Prompt("string", 5, 0), Prompt("string", 21, 2), Prompt("string", 1000, 125) }

\* candidates as the evaluator reads them.  Without an answer the word count
\* is 1 and there is no paragraph or sentence; without a title its word
\* count is 1; a keyword can only match in an answer or a title
FaqDataGrid ==
  { f \in [title : BOOLEAN, answer : BOOLEAN, category : BOOLEAN, keywords : BOOLEAN,
           wordCount : WordCounts, paragraphs : 0 .. 2, sentences : {0, 1, 3},
           titleWords : TitleWordCounts, matchCount : {0, 1, 2, 12, 125}] :
      /\ ~ f.answer => f.wordCount = 1 /\ f.paragraphs = 0 /\ f.sentences = 0
      /\ f.answer => f.paragraphs >= 1 /\ f.sentences >= 1
      /\ ~ f.title => f.titleWords = 1
      /\ (~ f.answer /\ ~ f.title) => f.matchCount = 0 }

\* the candidates that are evaluated twice
TwiceGrid ==
  { f \in FaqDataGrid :
      f.wordCount \in {1, 49, 50} /\ f.titleWords \in {1, 3} /\ f.matchCount \in {0, 2} }

\* metric values of quality results built by hand, as a test of
\* getScenarioCode does
HandMetrics == {300, 500, 900}

\* a quality result with the given breakdown and passed flag
QualityOf(c, l, st, r, passed) ==
  LET scores == [completeness |-> c, length |-> l, structure |-> st, relevance |-> r]
  IN [score     |-> (WeightedTotal(scores) + 50) \div 100,
      level     |-> GetQualityLevel(WeightedTotal(scores)),
      breakdown |-> << scores >>,
      passed    |-> passed]

\* scenario codes handed to the strategy lookup: the catalog, codes outside
\* it, and names that objects inherit
LookupCodes ==
  DOMAIN adaptiveStrategies \cup {"success", "timeout", ""} \cup ObjectPrototypeKeys

EvalInput(fn, f, p, q, code) ==
  [fn |-> fn, faqData |-> f, prompt |-> p, quality |-> q, code |-> code,
   halfUp |-> TRUE]

EvalInputs ==
       { EvalInput("evaluateQuality", f, p, QualityOf(0, 0, 0, 0, FALSE), "") :
           f \in FaqDataGrid, p \in EvalPrompts }
  \cup { [EvalInput("evaluateTwice", f, p, QualityOf(0, 0, 0, 0, FALSE), "")
            EXCEPT !.halfUp = h] :
           f \in TwiceGrid, p \in EvalPrompts, h \in BOOLEAN }
  \cup { EvalInput("getScenarioCode", Candidates.empty, NoPrompt,
                   QualityOf(c, l, st, r, passed), "") :
           c \in HandMetrics, l \in HandMetrics, st \in HandMetrics,
           r \in HandMetrics, passed \in BOOLEAN }
  \cup { EvalInput("getStrategiesForScenario", Candidates.empty, NoPrompt,
                   QualityOf(0, 0, 0, 0, FALSE), code) :
           code \in LookupCodes }

InitEval ==
  /\ adaptive_params = SeedRows
  /\ now = 0
  /\ InitRequest
  /\ InitRest
  /\ InitSeqIdle
  /\ \E in \in EvalInputs :
       /\ in.fn \in {"evaluateQuality", "evaluateTwice"} =>
            in.faqData.matchCount <= in.prompt.promptWords
       /\ ~ in.halfUp =>
            WeightedTotal(MetricScores(in.faqData, in.prompt)) % 100 = 50
       /\ evalIn = << in >>
  /\ evalOut = [quality |-> << >>, code |-> << >>, strategies |-> << >>,
                again |-> << >>, others |-> 0]
  /\ InitConfigured

\* qualityEvaluator.evaluateQuality(faqData, prompt)
EvalEvaluateQuality ==
  /\ evalIn[1].fn = "evaluateQuality"
  /\ evalOut.quality = << >>
  /\ \E q \in EvaluateQualityResults(evalIn[1].faqData, evalIn[1].prompt) :
       evalOut' = [evalOut EXCEPT !.quality = << q >>]
  /\ UNCHANGED << storeVars, reqVars, concVars, evalIn >>

\* the quality result getScenarioCode is applied to: the one handed in, or
\* the one evaluateQuality returned
QualityToClassify ==
  IF evalIn[1].fn = "getScenarioCode" THEN << evalIn[1].quality >>
  ELSE IF evalIn[1].fn = "evaluateQuality" THEN evalOut.quality
  ELSE << >>

\* qualityEvaluator.getScenarioCode(quality)
EvalGetScenarioCode ==
  /\ QualityToClassify # << >>
  /\ evalOut.code = << >>
  /\ evalOut' = [evalOut EXCEPT !.code = << GetScenarioCode(QualityToClassify[1]) >>]
  /\ UNCHANGED << storeVars, reqVars, concVars, evalIn >>

\* the code the strategy lookup is applied to: the one handed in, or the one
\* getScenarioCode returned for an attempt that did not pass
CodeToLookUp ==
  IF evalIn[1].fn = "getStrategiesForScenario" THEN << evalIn[1].code >>
  ELSE IF evalOut.code # << >> /\ evalOut.code[1] # "success" THEN evalOut.code
  ELSE << >>

\* this._getStrategiesForScenario(scenarioCode)
EvalGetStrategies ==
  /\ CodeToLookUp # << >>
  /\ evalOut.strategies = << >>
  /\ evalOut' = [evalOut EXCEPT
                   !.strategies = << GetStrategiesForScenario(CodeToLookUp[1]) >>]
  /\ UNCHANGED << storeVars, reqVars, concVars, evalIn >>

\* the evaluations the evaluator has served
Evaluations ==
  evalOut.others + (IF evalOut.quality = << >> THEN 0 ELSE 1)
                 + (IF evalOut.again = << >> THEN 0 ELSE 1)

\* evaluateQuality(faqData, prompt), the first and the second time with the
\* same arguments
EvalEvaluateTwice ==
  /\ evalIn[1].fn = "evaluateTwice"
  /\ evalOut.again = << >>
  /\ LET q == EvaluateQualityAfter(evalIn[1].faqData, evalIn[1].prompt, evalIn[1].halfUp,
                                   Evaluations, adaptive_params)
     IN evalOut' = IF evalOut.quality = << >>
                     THEN [evalOut EXCEPT !.quality = << q >>]
                     ELSE [evalOut EXCEPT !.again = << q >>]
  /\ UNCHANGED << storeVars, reqVars, concVars, evalIn >>

\* evaluateQuality for another candidate, between the two
EvalEvaluateOther ==
  /\ evalIn[1].fn = "evaluateTwice"
  /\ evalOut.again = << >>
  /\ evalOut.others < MaxBetween
  /\ \E c \in CandidateNames :
       EvaluateQualityAfter(Candidates[c], evalIn[1].prompt, TRUE, Evaluations,
                            adaptive_params).score >= 0
  /\ evalOut' = [evalOut EXCEPT !.others = @ + 1]
  /\ UNCHANGED << storeVars, reqVars, concVars, evalIn >>

\* a learn upsert of another request, between the two
EvalStoreOperation ==
  /\ evalIn[1].fn = "evaluateTwice"
  /\ evalOut.again = << >>
  /\ Len(hist) < MaxBetween
  /\ \E score \in StoreScores :
       /\ now' = now + 1
       /\ adaptive_params' = UpdateAdaptiveParam(adaptive_params, "success", defaultParams,
                                                 score, now')
       /\ hist' = Append(hist, [table |-> "adaptive_params", code |-> "success",
                                params |-> defaultParams, score |-> score])
  /\ UNCHANGED << faq_generations, learning_metrics, eqs_cache, reqVars, concVars, evalVars >>

NextEval ==
  \/ EvalEvaluateQuality
  \/ EvalGetScenarioCode
  \/ EvalGetStrategies
  \/ EvalEvaluateTwice
  \/ EvalEvaluateOther
  \/ EvalStoreOperation

SpecEval == InitEval /\ [][NextEval]_vars

\* C14: getScenarioCode returns 'success' for a result that passed; otherwise
\* the first of incomplete_response, length_issue, structure_issue,
\* relevance_issue whose metric (completeness, length, structure, relevance)
\* is below 0.5, and 'quality_low' when none is; so the breakdown
\* {0.3, 0.9, 0.9, 0.9} of a failed result gives incomplete_response
C14_ScenarioCodeByPriority ==
  evalOut.code # << >> =>
    LET q == QualityToClassify[1]
        b == q.breakdown[1]
        code == evalOut.code[1]
    IN /\ q.passed => code = "success"
       /\ ~ q.passed =>
            /\ code \in {"incomplete_response", "length_issue", "structure_issue",
                          "relevance_issue", "quality_low"}
            /\ code = "incomplete_response" <=> b.completeness < 500
            /\ code = "length_issue" <=> (b.completeness >= 500 /\ b.length < 500)
            /\ code = "structure_issue" <=>
                 (b.completeness >= 500 /\ b.length >= 500 /\ b.structure < 500)
            /\ code = "relevance_issue" <=>
                 (b.completeness >= 500 /\ b.length >= 500 /\ b.structure >= 500
                    /\ b.relevance < 500)
            /\ code = "quality_low" <=>
                 (b.completeness >= 500 /\ b.length >= 500 /\ b.structure >= 500
                    /\ b.relevance >= 500)
       /\ (~ q.passed /\ b = [completeness |-> 300, length |-> 900,
                               structure |-> 900, relevance |-> 900])
            => code = "incomplete_response"

\* a failed result whose completeness and length are both below 0.5 was
\* classified by its completeness
C14_Witness ==
  /\ evalIn[1].fn = "getScenarioCode"
  /\ ~ evalIn[1].quality.passed
  /\ evalIn[1].quality.breakdown[1].completeness = 300
  /\ evalIn[1].quality.breakdown[1].length = 300
  /\ evalOut.code = << "incomplete_response" >>

\* C15: the strategy lookup returns the 'quality_low' list for every scenario
\* code that is not a key of the catalog (the list it returns is then tried
\* in its order by the adaptive phase, see C10)
C15_UnknownCodeGetsQualityLowList ==
  (evalOut.strategies # << >> /\ CodeToLookUp[1] \notin DOMAIN adaptiveStrategies) =>
    evalOut.strategies[1] = StrategyList(adaptiveStrategies.quality_low)

\* the quality result evaluateQuality returned, if it has
Evaluated == evalIn[1].fn = "evaluateQuality" /\ evalOut.quality # << >>

\* C16: evaluateQuality returns an overall score in [0, 1] and four metrics
\* in [0, 1], and the score is the sum 0.35 completeness + 0.25 length +
\* 0.20 structure + 0.20 relevance (to the three decimals it is returned in)
C16_ScoreIsWeightedSumInUnitInterval ==
  Evaluated =>
    LET q == evalOut.quality[1]
        b == q.breakdown[1]
        sum == 35 * b.completeness + 25 * b.length + 20 * b.structure + 20 * b.relevance
    IN /\ q.score \in 0 .. 1000
       /\ b.completeness \in 0 .. 1000
       /\ b.length \in 0 .. 1000
       /\ b.structure \in 0 .. 1000
       /\ b.relevance \in 0 .. 1000
       /\ 100 * q.score - sum \in -50 .. 50

\* a candidate with all four metrics at 1.0 scored 1.0
C16_Witness ==
  /\ Evaluated
  /\ evalOut.quality[1].breakdown[1] =
       [completeness |-> 1000, length |-> 1000, structure |-> 1000, relevance |-> 1000]
  /\ evalOut.quality[1].score = 1000

\* the level the thresholds give for a value in thousandths
LevelOfScore(score) ==
  IF score >= 850 THEN "excellent"
  ELSE IF score >= 700 THEN "good"
  ELSE IF score >= 500 THEN "acceptable"
  ELSE IF score >= 300 THEN "poor"
  ELSE "failed"

\* C17: in every result of evaluateQuality, level and passed follow from the
\* thresholds applied to the returned (rounded) score: >= 0.85 excellent,
\* >= 0.70 good, >= 0.50 acceptable, >= 0.30 poor, else failed, and passed
\* is true exactly when the returned score is >= 0.50
C17_LevelFromReturnedScore ==
  Evaluated =>
    LET q == evalOut.quality[1]
    IN /\ q.level = LevelOfScore(q.score)
       /\ q.passed <=> q.score >= 500

C25_LengthBands ==
  Evaluated =>
    LET w == evalIn[1].faqData.wordCount
        length == evalOut.quality[1].breakdown[1].length
    IN /\ (50 <= w /\ w <= 300) => length = 1000
       /\ ((30 <= w /\ w < 50) \/ (300 < w /\ w <= 500)) => length = 700
       /\ w < 10 => length = 100
       /\ ((10 <= w /\ w < 30) \/ w > 500) => length = 500

\* an answer of 500 words, at the upper end of the 0.7 band, was scored
C25_Witness ==
  /\ Evaluated
  /\ evalIn[1].faqData.wordCount = 500
  /\ evalOut.quality[1].breakdown[1].length = 700

(***************************************************************************)
(* The sequence-learning variant (netlify/functions/generate_faq.js):      *)
(* SSSInterface keeps one row per pqs_code in sss_cache, the sequence that *)
(* reached the quality threshold and a weight.  Temperatures, scores and  *)
(* weights are in hundredths.                                              *)
(***************************************************************************)
QUALITY_THRESHOLD == 80
MAX_ADAPTIVE_ATTEMPTS == 3

\* generation parameters of the variant
SeqParams(temp, top_k, desc) == [temp |-> temp, top_k |-> top_k, desc |-> desc]

\* LLMInterface.DEFAULT_PARAMS
DEFAULT_PARAMS == SeqParams(50, 40, "Initial Default")

\* AdaptiveEngine._generateExpansionSequence
GenerateExpansionSequence(code) ==
  << SeqParams(30, 20, "Strict Stabilization"),
     SeqParams(80, 80, "Creative Exploration"),
     SeqParams(50, 50, "Balanced Retrial") >>

\* the PQS codes a failed first attempt can carry
SeqCodes == {"E302", "E501"}

\* sequences stored or handed to learnAndStoreSequence in the model: the
\* prefixes of the expansion sequence, sequences that start with a
\* temperature of 0.4 or more, one longer than MAX_ADAPTIVE_ATTEMPTS, and []
SequenceGrid ==
  LET e == GenerateExpansionSequence("") IN
  { << >>, << e[1] >>, << e[1], e[2] >>, e, << e[2] >>, << e[2], e[3] >>,
    << e[2], e[3], e[1] >>, << e[2], e[3], e[2], e[3] >> }

\* a row of sss_cache
SssRow(sequence, weight) == [sequence_json |-> sequence, weight_ws |-> weight]

\* SELECT weight_ws FROM sss_cache WHERE pqs_code = $1, "|| 0"
CurrentWeight(cache, pqsCode) ==
  IF cache[pqsCode] = << >> THEN 0 ELSE cache[pqsCode][1].weight_ws

\* parseFloat((currentWeight + (1.0 / sequenceLength)).toFixed(2)), for a
\* sequence that is not empty
NewWeight(currentWeight, sequence) ==
  (currentWeight * 100 + 10000 \div Len(sequence) + 50) \div 100

\* INSERT INTO sss_cache ... ON CONFLICT (pqs_code) DO UPDATE SET
\* sequence_json = EXCLUDED.sequence_json, weight_ws = EXCLUDED.weight_ws
UpsertSequence(cache, pqsCode, sequence, newWeight) ==
  [cache EXCEPT ![pqsCode] = << SssRow(sequence, newWeight) >>]

\* SSSInterface.getBestSequence: the stored sequence, or null
GetBestSequence(cache, pqsCode) ==
  IF cache[pqsCode] = << >> THEN << >> ELSE << cache[pqsCode][1].sequence_json >>

\* SSSInterface.getHighestWeightedParam: the last element of the stored
\* sequence, or null
GetHighestWeightedParam(cache, pqsCode) ==
  LET sequence == GetBestSequence(cache, pqsCode) IN
  IF sequence # << >> /\ Len(sequence[1]) > 0
    THEN << sequence[1][Len(sequence[1])] >>
    ELSE << >>

\* no learnAndStoreSequence call is under way
IdleCalls == [c \in Clients |-> [pc |-> "idle", pqsCode |-> "", sequence |-> << >>,
                                 currentWeight |-> 0]]

\* overlapping learnAndStoreSequence calls on an empty sss_cache
InitSeqConc ==
  /\ adaptive_params = SeedRows
  /\ now = 0
  /\ InitRequest
  /\ InitRest
  /\ InitEvalIdle
  /\ InitConfigured
  /\ sss_cache = [code \in SeqCodes |-> << >>]
  /\ sssCalls = IdleCalls
  /\ engine = << >>

\* learnAndStoreSequence(pqsCode, sequence) is called and connects
SssCall(c) ==
  /\ sssCalls[c].pc = "idle"
  /\ \E pqsCode \in SeqCodes, sequence \in SequenceGrid \ {<< >>} :
       sssCalls' = [sssCalls EXCEPT ![c] = [pc |-> "read", pqsCode |-> pqsCode,
                                            sequence |-> sequence, currentWeight |-> 0]]
  /\ UNCHANGED << storeVars, reqLocals, concVars, evalVars, sss_cache, engine >>

\* the SELECT of learnAndStoreSequence returns
SssRead(c) ==
  /\ sssCalls[c].pc = "read"
  /\ sssCalls' = [sssCalls EXCEPT
                    ![c].currentWeight = CurrentWeight(sss_cache, sssCalls[c].pqsCode),
                    ![c].pc = "write"]
  /\ UNCHANGED << storeVars, reqLocals, concVars, evalVars, sss_cache, engine >>

\* the INSERT ... ON CONFLICT of learnAndStoreSequence is applied and the
\* call completes
SssWrite(c) ==
  /\ sssCalls[c].pc = "write"
  /\ sss_cache' = UpsertSequence(sss_cache, sssCalls[c].pqsCode, sssCalls[c].sequence,
                                 NewWeight(sssCalls[c].currentWeight, sssCalls[c].sequence))
  /\ sssCalls' = [sssCalls EXCEPT ![c].pc = "done"]
  /\ UNCHANGED << storeVars, reqLocals, concVars, evalVars, engine >>

NextSeqConc == \E c \in Clients : SssCall(c) \/ SssRead(c) \/ SssWrite(c)

SpecSeqConc == InitSeqConc /\ [][NextSeqConc]_vars

\* 1/len(sequence), rounded to 2 decimals
SequenceIncrement(sequence) == (10000 \div Len(sequence) + 50) \div 100

RECURSIVE SumIncrements(_)
\* the increments of a set of completed calls
SumIncrements(calls) ==
  IF calls = {} THEN 0
  ELSE LET c == CHOOSE x \in calls : TRUE
       IN SequenceIncrement(sssCalls[c].sequence) + SumIncrements(calls \ {c})

\* the completed calls for a code
CompletedFor(code) ==
  { c \in Clients : sssCalls[c].pc = "done" /\ sssCalls[c].pqsCode = code }

\* no call for the code is between its read and its write
NoneUnderWay(code) ==
  \A c \in Clients : sssCalls[c].pqsCode = code => sssCalls[c].pc \in {"idle", "done"}

\* C37: every completed learnAndStoreSequence(code, sequence) call raises
\* the weight_ws of its code by 1/len(sequence) rounded to 2 decimals, also
\* when calls for the same code overlap: starting from no row, the weight is
\* the sum of the increments of the completed calls
C37_NoIncrementLost ==
  \A code \in SeqCodes :
    NoneUnderWay(code) =>
      CurrentWeight(sss_cache, code) = SumIncrements(CompletedFor(code))

(***************************************************************************)
(* LLMInterface.generate and the AdaptiveEngine                            *)
(***************************************************************************)
\* QUALITY_WEIGHTS (tenths)
QUALITY_WEIGHTS == [schema |-> 5, facts |-> 3, coherence |-> 2]

\* 0.8 + Math.random() * 0.2 and 0.7 + Math.random() * 0.3, sampled
FactReadings == {80, 90}
CoherenceReadings == {70, 90}

\* LLMInterface._createPqsSignal
CreatePqsSignal(status, code, isDim5) ==
  [status |-> status, code |-> code, is_dim5 |-> isDim5]

\* the faqOutput of a generate call: {} (no f_score), or the raw output with
\* its f_score
NoOutput == [empty |-> TRUE, temp |-> 0, f_score |-> << >>]
RawOutput(temp, fScore) == [empty |-> FALSE, temp |-> temp, f_score |-> << fScore >>]

\* LLMInterface.generate(prompt, params): compliant is the outcome of
\* Math.random() > 0.1, read only for a temperature of 0.4 or more
Generate(params, compliant, factScore, coherenceScore) ==
  LET schemaCompliance == IF params.temp < 40 THEN 100
                          ELSE IF compliant THEN 100 ELSE 0
      fScore == QUALITY_WEIGHTS.schema * schemaCompliance
                  + QUALITY_WEIGHTS.facts * factScore
                  + QUALITY_WEIGHTS.coherence * coherenceScore
      pqsCode == IF fScore < 700 THEN "E302" ELSE "P200"
  IN IF schemaCompliance < 50
       THEN [faqOutput |-> NoOutput, pqsSignal |-> CreatePqsSignal("FAILURE", "E501", TRUE)]
       ELSE [faqOutput |-> RawOutput(params.temp, (fScore + 5) \div 10),
             pqsSignal |-> CreatePqsSignal(IF pqsCode = "P200" THEN "OK" ELSE "FAILURE",
                                           pqsCode, FALSE)]

\* what generate can return for the params
GenerateResults(params) ==
  { Generate(params, compliant, factScore, coherenceScore) :
      compliant \in BOOLEAN, factScore \in FactReadings,
      coherenceScore \in CoherenceReadings }

\* the attempt label 'DIM5_Fallback' of the fallback's entry; the entries of
\* the other attempts carry a number from 0
DIM5_Fallback == -1

\* an entry of pqsLog
PqsLogEntry(attempt, params, fScore, pqs) ==
  [attempt |-> attempt, params |-> params, f_score |-> fScore, pqs |-> pqs]

\* "fScore >= this.QUALITY_THRESHOLD"; an undefined f_score compares false
ReachesThreshold(fScore) == fScore # << >> /\ fScore[1] >= QUALITY_THRESHOLD

SeqLoopContinuesUncapped(i, adaptiveSequence) == i < Len(adaptiveSequence)

\* the loop head of _handleFailureMode
SeqLoopContinues(i, adaptiveSequence) ==
  i < Len(adaptiveSequence) /\ i < MAX_ADAPTIVE_ATTEMPTS

\* successfulSequence.push(paramsToTest) before learnAndStoreSequence
SequenceToLearn(successfulSequence, paramsToTest) ==
  Append(successfulSequence, paramsToTest)

\* the locals of a request before it starts
EngineLocals(entry, pcStart, signal, log) ==
  [entry |-> entry, pc |-> pcStart, code |-> signal.code, is_dim5 |-> signal.is_dim5,
   pqsLog |-> log, bestParam |-> << >>, adaptiveSequence |-> << >>,
   successfulSequence |-> << >>, i |-> 0, finalOutput |-> << >>, learnCalls |-> << >>,
   currentWeight |-> 0, result |-> << >>, thrown |-> << >>, adaptiveCalls |-> 0]

\* the weight of the rows sss_cache holds at the start
StoredWeights == {100}

\* a call of generate_faq_autonomously(prompt, DEFAULT_PARAMS), or a call of
\* _handleFailureMode with the signal of a first attempt that failed with
\* the non-critical code.  The rows of sss_cache are those the table holds
\* when the request starts: none, or a sequence that is not empty
InitSeq ==
  /\ adaptive_params = SeedRows
  /\ now = 0
  /\ InitRequest
  /\ InitRest
  /\ InitEvalIdle
  /\ InitConfigured
  /\ sss_cache \in [SeqCodes -> {<< >>} \cup { << SssRow(q, w) >> :
                                                q \in SequenceGrid \ {<< >>},
                                                w \in StoredWeights }]
  /\ sssCalls = IdleCalls
  /\ engine \in
       { EngineLocals("generate_faq_autonomously", "start",
                      CreatePqsSignal("", "", FALSE), << >>),
         EngineLocals("_handleFailureMode", "failure",
                      CreatePqsSignal("FAILURE", "E302", FALSE),
                      << PqsLogEntry(0, DEFAULT_PARAMS, << >>, "E302") >>) }

EngineReturn(faqOutput, log) == << [faq_output |-> faqOutput, pqs_log |-> log] >>

\* generate_faq_autonomously: the first attempt with the default parameters
EngineFirstAttempt ==
  /\ engine.pc = "start"
  /\ \E out \in GenerateResults(DEFAULT_PARAMS) :
       LET log == << PqsLogEntry(0, DEFAULT_PARAMS, << >>, out.pqsSignal.code) >> IN
       engine' = IF out.pqsSignal.status = "OK"
                   THEN [engine EXCEPT !.pc = "returned", !.pqsLog = log,
                                       !.result = EngineReturn(out.faqOutput, log)]
                   ELSE [engine EXCEPT !.pc = "failure", !.pqsLog = log,
                                       !.code = out.pqsSignal.code,
                                       !.is_dim5 = out.pqsSignal.is_dim5]
  /\ UNCHANGED << storeVars, reqLocals, concVars, evalVars, sss_cache, sssCalls >>

\* _handleFailureMode up to its first generate call: the read of the best
\* parameter (critical code) or of the best sequence
EngineFailureMode ==
  /\ engine.pc = "failure"
  /\ engine' =
       IF engine.is_dim5
         THEN [engine EXCEPT
                 !.pc = "dim5",
                 !.bestParam =
                   IF GetHighestWeightedParam(sss_cache, engine.code) # << >>
                     THEN GetHighestWeightedParam(sss_cache, engine.code)
                     ELSE << DEFAULT_PARAMS >>]
         ELSE [engine EXCEPT
                 !.pc = "loop",
                 !.adaptiveSequence =
                   IF GetBestSequence(sss_cache, engine.code) # << >>
                     THEN GetBestSequence(sss_cache, engine.code)[1]
                     ELSE GenerateExpansionSequence(engine.code)]
  /\ UNCHANGED << storeVars, reqLocals, concVars, evalVars, sss_cache, sssCalls >>

\* the fallback for a critical code: one generate call, whose output is
\* returned as it is
EngineDim5Fallback ==
  /\ engine.pc = "dim5"
  /\ \E out \in GenerateResults(engine.bestParam[1]) :
       LET log == Append(engine.pqsLog,
                         PqsLogEntry(DIM5_Fallback, engine.bestParam[1], << >>, "DIM5"))
       IN engine' = [engine EXCEPT !.pc = "returned", !.pqsLog = log,
                                   !.result = EngineReturn(out.faqOutput, log)]
  /\ UNCHANGED << storeVars, reqLocals, concVars, evalVars, sss_cache, sssCalls >>

\* one pass of the loop of _handleFailureMode, up to the call of
\* learnAndStoreSequence when the attempt reaches the threshold
EngineAdaptiveAttempt ==
  /\ engine.pc = "loop"
  /\ SeqLoopContinues(engine.i, engine.adaptiveSequence)
  /\ \E out \in GenerateResults(engine.adaptiveSequence[engine.i + 1]) :
       LET paramsToTest == engine.adaptiveSequence[engine.i + 1]
           fScore == out.faqOutput.f_score
           log == Append(engine.pqsLog,
                         PqsLogEntry(engine.i + 1, paramsToTest, fScore, out.pqsSignal.code))
           sequence == SequenceToLearn(engine.successfulSequence, paramsToTest)
       IN engine' =
            IF ReachesThreshold(fScore)
              THEN [engine EXCEPT !.pc = "learn_read", !.pqsLog = log,
                                  !.successfulSequence = sequence,
                                  !.finalOutput = << out.faqOutput >>,
                                  !.learnCalls = Append(@, [pqsCode |-> engine.code,
                                                            sequence |-> sequence]),
                                  !.adaptiveCalls = @ + 1]
              ELSE [engine EXCEPT !.pqsLog = log,
                                  !.successfulSequence = Append(@, paramsToTest),
                                  !.i = @ + 1,
                                  !.adaptiveCalls = @ + 1]
  /\ UNCHANGED << storeVars, reqLocals, concVars, evalVars, sss_cache, sssCalls >>

\* learnAndStoreSequence, called by the engine: the SELECT
EngineLearnRead ==
  /\ engine.pc = "learn_read"
  /\ engine' = [engine EXCEPT !.pc = "learn_write",
                              !.currentWeight = CurrentWeight(sss_cache, engine.code)]
  /\ UNCHANGED << storeVars, reqLocals, concVars, evalVars, sss_cache, sssCalls >>

\* learnAndStoreSequence, called by the engine: the upsert; then
\* _handleFailureMode returns the passing output
EngineLearnWrite ==
  /\ engine.pc = "learn_write"
  /\ sss_cache' = UpsertSequence(sss_cache, engine.code, engine.successfulSequence,
                                 NewWeight(engine.currentWeight, engine.successfulSequence))
  /\ engine' = [engine EXCEPT !.pc = "returned",
                              !.result = EngineReturn(engine.finalOutput[1], engine.pqsLog)]
  /\ UNCHANGED << storeVars, reqLocals, concVars, evalVars, sssCalls >>

\* the statement after the loop: return { faq_output: finalOutput ||
\* faqOutput, ... }.  finalOutput is still null, and no variable faqOutput is
\* in scope in _handleFailureMode, so evaluating it throws a ReferenceError
EngineExhausted ==
  /\ engine.pc = "loop"
  /\ ~ SeqLoopContinues(engine.i, engine.adaptiveSequence)
  /\ engine' = IF engine.finalOutput # << >>
                  THEN [engine EXCEPT !.pc = "returned",
                                      !.result = EngineReturn(engine.finalOutput[1],
                                                              engine.pqsLog)]
                  ELSE [engine EXCEPT !.pc = "thrown", !.thrown = << "ReferenceError" >>]
  /\ UNCHANGED << storeVars, reqLocals, concVars, evalVars, sss_cache, sssCalls >>

NextSeq ==
  \/ EngineFirstAttempt
  \/ EngineFailureMode
  \/ EngineDim5Fallback
  \/ EngineAdaptiveAttempt
  \/ EngineLearnRead
  \/ EngineLearnWrite
  \/ EngineExhausted

SpecSeq == InitSeq /\ [][NextSeq]_vars

\* the entries of pqsLog that the adaptive loop wrote
AdaptiveEntries ==
  { k \in DOMAIN engine.pqsLog :
      engine.pqsLog[k].attempt \in 1 .. MAX_ADAPTIVE_ATTEMPTS }

\* _handleFailureMode ended, for a code that is not critical, and no
\* adaptive attempt reached the threshold
ExhaustedNonCritical ==
  /\ engine.pc \in {"returned", "thrown"}
  /\ engine.code # ""
  /\ ~ engine.is_dim5
  /\ \A k \in AdaptiveEntries : ~ ReachesThreshold(engine.pqsLog[k].f_score)

\* C38: when the first attempt failed with a non-critical code and every
\* adaptive attempt scored below QUALITY_THRESHOLD, _handleFailureMode
\* returns normally with a faq_output and the full pqs_log after at most
\* MAX_ADAPTIVE_ATTEMPTS adaptive generate calls; it raises no error
C38_ExhaustionReturnsNormally ==
  ExhaustedNonCritical =>
    /\ engine.thrown = << >>
    /\ engine.result # << >>
    /\ engine.result[1].pqs_log = engine.pqsLog
    /\ engine.adaptiveCalls <= MAX_ADAPTIVE_ATTEMPTS

\* C39: every sequence passed to learnAndStoreSequence is non-empty, has at
\* most MAX_ADAPTIVE_ATTEMPTS elements, is the prefix of the tried adaptive
\* sequence up to and including the attempt that reached QUALITY_THRESHOLD,
\* and its last element, the one getHighestWeightedParam returns after the
\* upsert, is the params of that passing attempt; learnAndStoreSequence is
\* called at most once per request and only when an attempt reached the
\* threshold
C39_LearnedSequenceIsPassingPrefix ==
  /\ Len(engine.learnCalls) <= 1
  /\ \A n \in DOMAIN engine.learnCalls :
       LET sequence == engine.learnCalls[n].sequence
           passing == engine.pqsLog[Len(engine.pqsLog)]
       IN /\ sequence # << >>
          /\ Len(sequence) <= MAX_ADAPTIVE_ATTEMPTS
          /\ Len(sequence) <= Len(engine.adaptiveSequence)
          /\ sequence = SubSeq(engine.adaptiveSequence, 1, Len(sequence))
          /\ passing.attempt = Len(sequence)
          /\ passing.f_score # << >>
          /\ passing.f_score[1] >= QUALITY_THRESHOLD
          /\ sequence[Len(sequence)] = passing.params
          /\ engine.learnCalls[n].pqsCode = engine.code
          /\ engine.pc = "returned" =>
                GetHighestWeightedParam(sss_cache, engine.code) = << passing.params >>

\* the third adaptive attempt reached the threshold after two that did not,
\* the sequence of the three was stored and the request returned
C39_Witness ==
  /\ engine.pc = "returned"
  /\ Len(engine.learnCalls) = 1
  /\ Len(engine.learnCalls[1].sequence) = MAX_ADAPTIVE_ATTEMPTS
  /\ engine.adaptiveCalls = MAX_ADAPTIVE_ATTEMPTS

====
